---- MODULE Spec2Model ----
(***************************************************************************)
(* A model of the things-mcp server: the write path (update_todo,          *)
(* update_project, remove_todo, remove_project), the summary assembler     *)
(* (getThingsSummary) and the verifier (verifyItemExists and friends).     *)
(*                                                                         *)
(* The three parts share no program state, so each has its own variables   *)
(* and its own specification: SpecWrite, SpecSummary and SpecVerify.  The  *)
(* helper functions (compressObject, formatDate, findThingsDatabase,       *)
(* buildThingsUrl, the date range filter) are also called on their own,    *)
(* with arguments of any shape, in SpecFunctions.                          *)
(***************************************************************************)
EXTENDS Integers, Sequences, FiniteSets, TLC

VARIABLES
  \* ---- write path ----
  token,        \* process.env.THINGS_AUTH_TOKEN
  platform,     \* process.platform
  tool,         \* the tool whose handler is running
  params,       \* the parsed parameters of the request (a function field -> value)
  pc,           \* position of the handler
  authToken,    \* the handler's local authToken
  url,          \* the handler's local url / AppleScript, built and not yet opened
  built,        \* every command the handler has built, in order
  dispatched,   \* every command handed to the host (open / osascript succeeded), in order
  response,     \* what the handler returned or threw
  \* ---- verifier ----
  fs,           \* which stages of the database path exist on disk
  store,        \* the TMTask record of the item, as the host application holds it
  hostQueue,    \* write-channel commands dispatched and not yet processed by the host
  vfn,          \* the verifier function that is running
  vargs,        \* its arguments
  vpc,          \* its position
  timer,        \* milliseconds left of the setTimeout of waitForOperation
  waited,       \* milliseconds passed since the call
  dbPath,       \* verifyItemExists' local dbPath (the outcome of findThingsDatabase)
  sqlResult,    \* verifyItemExists' local result (the rows read)
  vresult,      \* what the verifier returned or threw
  reads,        \* SQL reads performed by the running call
  vIssued,      \* write-channel commands dispatched by the running call
  storeAtRead,  \* history: the record held by the host when the read happened
  \* ---- summary assembler ----
  db,           \* the host application's database: TMArea, TMTag, TMTask, TMTaskTag, TMChecklistItem
  edits,        \* how many changes the user has made in the host application
  spc,          \* position of the things_summary handler
  sargs,        \* the arguments of the summary request, as the caller sent them
  sparams,      \* the parsed parameters of the summary request
  loaded,       \* the rows the four queries of the request returned
  failedQueries,\* history: the queries of the request whose sqlite3 command failed
  filteredTasks,\* the handler's local filteredTasks after the last filter
  summary,      \* what the handler returned (the data tree) or threw
  \* ---- the helper functions, called on their own ----
  call,         \* the function called and its arguments
  result,       \* what the call returned or threw
  \* ---- export_json ----
  zone,         \* the host machine's time zone: hours ahead of UTC
  epc,          \* position of the export_json handler
  eparams,      \* the parsed parameters of the export request
  exported,     \* what the handler returned (export_data) or threw
  \* ---- update requests handled at the same time ----
  hostItem,     \* the record of the one item the requests target, as the host holds it
  requests,     \* per request: position, tool, parameters, command, response
  spawned,      \* history: the requests in the order their open command was started
  hostInbox,    \* the commands handed to the host and not yet processed, in arrival order
  processed     \* history: the commands the host processed, in order

wvars == <<token, platform, tool, params, pc, authToken, url, built, dispatched, response>>

vlocals == <<vfn, vargs, vpc, timer, waited, dbPath, sqlResult, vresult, reads, vIssued, storeAtRead>>

vvars == <<fs, store, hostQueue, vlocals>>

svars == <<db, edits, spc, sargs, sparams, loaded, failedQueries, filteredTasks, summary>>

fvars == <<call, result>>

evars == <<zone, epc, eparams, exported>>

cvars == <<hostItem, requests, spawned, hostInbox, processed>>

vars == <<wvars, vvars, svars, fvars, evars, cvars>>

(***************************************************************************)
(* JavaScript values, tagged by type.                                      *)
(***************************************************************************)
Undef == [t |-> "undefined"]
Str(s) == [t |-> "string", s |-> s]
Bool(b) == [t |-> "boolean", b |-> b]
Arr(a) == [t |-> "array", a |-> a]
Obj(o) == [t |-> "object", o |-> o]
Null == [t |-> "null"]
Num(n) == [t |-> "number", n |-> n]

\* JavaScript truthiness: undefined, null, '', false, 0 and NaN are falsy;
\* arrays and objects are truthy.
Truthy(v) ==
  CASE v.t = "undefined" -> FALSE
    [] v.t = "null" -> FALSE
    [] v.t = "number" -> "n" \in DOMAIN v /\ v.n # 0
    [] v.t = "string" -> v.s # ""
    [] v.t = "boolean" -> v.b
    [] OTHER -> TRUE

RECURSIVE Join(_, _)
\* Array.prototype.join
Join(a, sep) ==
  IF a = <<>> THEN ""
  ELSE IF Len(a) = 1 THEN a[1]
  ELSE a[1] \o sep \o Join(Tail(a), sep)

\* String(value) as buildThingsUrl applies it (arrays are joined with ',').
StringValue(v) ==
  CASE v.t = "string" -> v.s
    [] v.t = "boolean" -> IF v.b THEN "true" ELSE "false"
    [] v.t = "array" -> Join(v.a, ",")
    [] v.t = "number" -> ToString(v.n)
    [] OTHER -> "[object Object]"

(***************************************************************************)
(* utils/auth.ts                                                           *)
(***************************************************************************)
getAuthToken == token

\* A check that lets the empty token through.
RequireAuthTokenThrowsOnUndefinedOnly == getAuthToken = Undef

\* requireAuthToken throws exactly when the token is undefined or ''.
RequireAuthTokenThrows == ~Truthy(getAuthToken)

AuthErrorMessage == "THINGS_AUTH_TOKEN environment variable is required for update operations"

(***************************************************************************)
(* utils/url-builder.ts                                                    *)
(***************************************************************************)
\* One query parameter is emitted for every entry whose value is neither
\* undefined, null nor ''.  A built URL is kept as its command and the ordered
\* list of <<key, value>> it carries (the values before percent-encoding; the
\* json command's data parameter keeps the structured value it stringifies).
\* A builder that keeps the truthy values only (if (value) ...).
BuildThingsUrlTruthy(command, entries) ==
  LET kept == SelectSeq(entries, LAMBDA kv : Truthy(kv[2]))
      enc(kv) == IF kv[1] = "data" /\ command = "json"
                   THEN [json |-> kv[2].o]
                   ELSE [text |-> StringValue(kv[2])]
  IN [channel |-> "url",
      command |-> command,
      query |-> [i \in 1..Len(kept) |-> <<kept[i][1], enc(kept[i])>>]]

BuildThingsUrl(command, entries) ==
  LET kept == SelectSeq(entries, LAMBDA kv :
                kv[2] # Undef /\ kv[2] # Null /\ kv[2] # Str(""))
      enc(kv) == IF kv[1] = "data" /\ command = "json"
                   THEN [json |-> kv[2].o]
                   ELSE [text |-> StringValue(kv[2])]
  IN [channel |-> "url",
      command |-> command,
      query |-> [i \in 1..Len(kept) |-> <<kept[i][1], enc(kept[i])>>]]

PlatformError == "Things URL scheme is only supported on macOS"

(***************************************************************************)
(* utils/json-operations.ts                                                *)
(***************************************************************************)
\* executeJsonOperation builds the json command around the one operation.
JsonOperationUrl(operation, tok) ==
  BuildThingsUrl("json", << <<"data", Obj(<<operation>>)>>, <<"auth-token", Str(tok)>> >>)

(***************************************************************************)
(* tools/update-todo.ts and tools/update-project.ts                        *)
(***************************************************************************)
\* The schema fields and the URL parameter each is mapped to, in source order.
\* rule "truthy": if (params.x) urlParams[k] = params.x
\* rule "join":   if (params.x) urlParams[k] = params.x.join(',')
\* rule "defined": if (params.x !== undefined) urlParams[k] = params.x
UpdateTodoMap == <<
  [param |-> "title", key |-> "title", rule |-> "truthy"],
  [param |-> "notes", key |-> "notes", rule |-> "truthy"],
  [param |-> "prependNotes", key |-> "prepend-notes", rule |-> "truthy"],
  [param |-> "appendNotes", key |-> "append-notes", rule |-> "truthy"],
  [param |-> "when", key |-> "when", rule |-> "truthy"],
  [param |-> "deadline", key |-> "deadline", rule |-> "truthy"],
  [param |-> "tags", key |-> "tags", rule |-> "join"],
  [param |-> "addTags", key |-> "add-tags", rule |-> "join"],
  [param |-> "checklistItems", key |-> "checklist-items", rule |-> "join"],
  [param |-> "prependChecklistItems", key |-> "prepend-checklist-items", rule |-> "join"],
  [param |-> "appendChecklistItems", key |-> "append-checklist-items", rule |-> "join"],
  [param |-> "projectId", key |-> "list-id", rule |-> "truthy"],
  [param |-> "projectName", key |-> "list", rule |-> "truthy"],
  [param |-> "areaId", key |-> "area-id", rule |-> "truthy"],
  [param |-> "areaName", key |-> "area", rule |-> "truthy"],
  [param |-> "headingId", key |-> "heading-id", rule |-> "truthy"],
  [param |-> "headingName", key |-> "heading", rule |-> "truthy"],
  [param |-> "completed", key |-> "completed", rule |-> "defined"],
  [param |-> "canceled", key |-> "canceled", rule |-> "defined"],
  [param |-> "creationDate", key |-> "creation-date", rule |-> "truthy"],
  [param |-> "completionDate", key |-> "completion-date", rule |-> "truthy"] >>

UpdateProjectMap == <<
  [param |-> "title", key |-> "title", rule |-> "truthy"],
  [param |-> "notes", key |-> "notes", rule |-> "truthy"],
  [param |-> "prependNotes", key |-> "prepend-notes", rule |-> "truthy"],
  [param |-> "appendNotes", key |-> "append-notes", rule |-> "truthy"],
  [param |-> "when", key |-> "when", rule |-> "truthy"],
  [param |-> "deadline", key |-> "deadline", rule |-> "truthy"],
  [param |-> "tags", key |-> "tags", rule |-> "join"],
  [param |-> "addTags", key |-> "add-tags", rule |-> "join"],
  [param |-> "areaId", key |-> "area-id", rule |-> "truthy"],
  [param |-> "areaName", key |-> "area", rule |-> "truthy"],
  [param |-> "creationDate", key |-> "creation-date", rule |-> "truthy"] >>

\* Does the handler copy this field into urlParams, and as what value.
FieldIsMapped(p, e) ==
  IF e.rule = "defined" THEN p[e.param] # Undef ELSE Truthy(p[e.param])

MappedValue(p, e) ==
  IF e.rule = "join" THEN Str(Join(p[e.param].a, ",")) ELSE p[e.param]

\* urlParams: id and auth-token first, then the mapped fields in source order.
UrlParams(map, p, tok) ==
  LET kept == SelectSeq(map, LAMBDA e : FieldIsMapped(p, e))
  IN << <<"id", p["id"]>>, <<"auth-token", Str(tok)>> >>
       \o [i \in 1..Len(kept) |-> <<kept[i].key, MappedValue(p, kept[i])>>]

\* update_todo builds one URL-scheme update command from every mapped field.
UpdateTodoCommands(p, tok) ==
  << BuildThingsUrl("update", UrlParams(UpdateTodoMap, p, tok)) >>

\* The attributes of update_project's JSON operation.
ProjectJsonAttributes(p) ==
  (IF p["completed"] # Undef
     THEN << <<"completed", p["completed"]>> >>
            \o (IF Truthy(p["completionDate"])
                  THEN << <<"completion-date", p["completionDate"]>> >>
                  ELSE <<>>)
     ELSE <<>>)
  \o (IF p["canceled"] # Undef THEN << <<"canceled", p["canceled"]>> >> ELSE <<>>)

\* update_project: a JSON operation when completed or canceled is given,
\* otherwise one URL-scheme update-project command.
UpdateProjectCommands(p, tok) ==
  IF p["completed"] # Undef \/ p["canceled"] # Undef
    THEN << JsonOperationUrl([type |-> "project", operation |-> "update",
                              id |-> p["id"].s,
                              attributes |-> ProjectJsonAttributes(p)], tok) >>
    ELSE << BuildThingsUrl("update-project", UrlParams(UpdateProjectMap, p, tok)) >>

(***************************************************************************)
(* utils/applescript.ts: deleteTodo, deleteProject                         *)
(***************************************************************************)
DeleteScript(t, id) ==
  [channel |-> "applescript",
   script |-> (IF t = "remove_todo" THEN "delete to do id " ELSE "delete project id ") \o id]

AppleScriptPlatformError == "AppleScript is only supported on macOS"

ExecError == "Command failed"

(***************************************************************************)
(* The requests of the write path.                                         *)
(***************************************************************************)
UpdateTools == {"update_todo", "update_project"}
RemoveTools == {"remove_todo", "remove_project"}

ItemIds == {"T1"}
Tokens == {Undef, Str(""), Str("tok")}
Platforms == {"darwin", "linux"}

FieldNames ==
  {"id"} \cup {UpdateTodoMap[i].param : i \in 1..Len(UpdateTodoMap)}

\* The values a request gives to the fields that vary; every other field of the
\* schema is left out of the request (undefined).
VariedChoices ==
  [title : {Undef, Str("X")},
   notes : {Undef, Str(""), Str("N")},
   tags : {Undef, Arr(<<>>), Arr(<<"a", "b">>)},
   completed : {Undef, Bool(TRUE), Bool(FALSE)},
   canceled : {Undef, Bool(TRUE), Bool(FALSE)},
   completionDate : {Undef, Str("2024-03-15T10:00:00")}]

UpdateParams ==
  {[f \in FieldNames |->
      IF f = "id" THEN Str(i)
      ELSE IF f \in DOMAIN v THEN v[f]
      ELSE Undef] : v \in VariedChoices, i \in ItemIds}

RemoveParams == {[f \in FieldNames |-> IF f = "id" THEN Str(i) ELSE Undef] : i \in ItemIds}

NoCommand == [channel |-> "none"]
NoResponse == [ok |-> FALSE, text |-> "pending"]
Failure(message) == [ok |-> FALSE, text |-> message]
Success(message) == [ok |-> TRUE, text |-> message]

\* No request is being handled.
WriteIdle ==
  /\ tool = "none"
  /\ params = [f \in FieldNames |-> Undef]
  /\ pc = "idle"
  /\ authToken = Undef
  /\ url = NoCommand
  /\ built = <<>>
  /\ dispatched = <<>>
  /\ response = NoResponse

InitWrite ==
  /\ token \in Tokens
  /\ platform \in Platforms
  /\ WriteIdle

WriteAtRest ==
  /\ token = Undef
  /\ platform = "darwin"
  /\ WriteIdle

\* The protocol layer calls a tool's handler with the parsed parameters.
Receive ==
  /\ pc = "idle"
  /\ \E t \in UpdateTools \cup RemoveTools :
       \E p \in (IF t \in UpdateTools THEN UpdateParams ELSE RemoveParams) :
         /\ tool' = t
         /\ params' = p
  /\ pc' = "start"
  /\ authToken' = Undef
  /\ url' = NoCommand
  /\ built' = <<>>
  /\ dispatched' = <<>>
  /\ response' = NoResponse
  /\ UNCHANGED <<token, platform, vvars, svars, fvars, evars, cvars>>

\* const authToken = requireAuthToken(): the first statement of both update handlers.
UpdateRequireAuth ==
  /\ pc = "start"
  /\ tool \in UpdateTools
  /\ IF RequireAuthTokenThrows
       THEN /\ response' = Failure(AuthErrorMessage)
            /\ pc' = "done"
            /\ UNCHANGED authToken
       ELSE /\ authToken' = getAuthToken
            /\ pc' = "build"
            /\ UNCHANGED response
  /\ UNCHANGED <<token, platform, tool, params, url, built, dispatched, vvars, svars, fvars, evars, cvars>>

\* update_todo up to the call of openThingsUrl.
UpdateTodoBuild ==
  /\ pc = "build"
  /\ tool = "update_todo"
  /\ url' = UpdateTodoCommands(params, authToken.s)[1]
  /\ built' = Append(built, url')
  /\ pc' = "open"
  /\ UNCHANGED <<token, platform, tool, params, authToken, dispatched, response, vvars, svars, fvars, evars, cvars>>

\* update_project up to the call of openThingsUrl (directly or in executeJsonOperation).
UpdateProjectBuild ==
  /\ pc = "build"
  /\ tool = "update_project"
  /\ url' = UpdateProjectCommands(params, authToken.s)[1]
  /\ built' = Append(built, url')
  /\ pc' = "open"
  /\ UNCHANGED <<token, platform, tool, params, authToken, dispatched, response, vvars, svars, fvars, evars, cvars>>

SuccessText ==
  (IF tool = "update_todo" THEN "Successfully updated to-do: "
   ELSE IF tool = "update_project" THEN "Successfully updated project: "
   ELSE IF tool = "remove_todo" THEN "Successfully removed todo with ID: "
   ELSE "Successfully removed project with ID: ") \o params["id"].s

\* openThingsUrl(url), and the handler's return after it.  The command reaches
\* the host only when the platform is macOS and `open` exits with success.
OpenThingsUrl ==
  /\ pc = "open"
  /\ IF platform # "darwin"
       THEN /\ response' = Failure(PlatformError)
            /\ UNCHANGED dispatched
       ELSE \E ok \in BOOLEAN :
              IF ok
                THEN /\ dispatched' = Append(dispatched, url)
                     /\ response' = Success(SuccessText)
                ELSE /\ response' = Failure(ExecError)
                     /\ UNCHANGED dispatched
  /\ pc' = "done"
  /\ UNCHANGED <<token, platform, tool, params, authToken, url, built, vvars, svars, fvars, evars, cvars>>

\* A remove handler that called requireAuthToken first, as the update handlers do.
RemoveItemAfterAuth ==
  /\ pc = "start"
  /\ tool \in RemoveTools
  /\ IF ~Truthy(token)
       THEN /\ response' = Failure(AuthErrorMessage)
            /\ UNCHANGED <<url, built, dispatched>>
       ELSE /\ url' = DeleteScript(tool, params["id"].s)
            /\ built' = Append(built, url')
            /\ dispatched' = Append(dispatched, url')
            /\ response' = Success(SuccessText)
  /\ pc' = "done"
  /\ UNCHANGED <<token, platform, tool, params, authToken, vvars, svars, fvars, evars, cvars>>

\* remove_todo and remove_project: deleteTodo / deleteProject build the script
\* and run it through executeAppleScript; no token is read.
RemoveItem ==
  /\ pc = "start"
  /\ tool \in RemoveTools
  /\ url' = DeleteScript(tool, params["id"].s)
  /\ built' = Append(built, url')
  /\ IF platform # "darwin"
       THEN /\ response' = Failure(AppleScriptPlatformError)
            /\ UNCHANGED dispatched
       ELSE \E ok \in BOOLEAN :
              IF ok
                THEN /\ dispatched' = Append(dispatched, url')
                     /\ response' = Success(SuccessText)
                ELSE /\ response' = Failure(ExecError)
                     /\ UNCHANGED dispatched
  /\ pc' = "done"
  /\ UNCHANGED <<token, platform, tool, params, authToken, vvars, svars, fvars, evars, cvars>>

\* The handler has returned or thrown: the protocol layer sends the response
\* and nothing of the request is kept.
Return ==
  /\ pc = "done"
  /\ tool' = "none"
  /\ params' = [f \in FieldNames |-> Undef]
  /\ pc' = "idle"
  /\ authToken' = Undef
  /\ url' = NoCommand
  /\ built' = <<>>
  /\ dispatched' = <<>>
  /\ response' = NoResponse
  /\ UNCHANGED <<token, platform, vvars, svars, fvars, evars, cvars>>

NextWrite ==
  \/ Receive
  \/ UpdateRequireAuth
  \/ UpdateTodoBuild
  \/ UpdateProjectBuild
  \/ OpenThingsUrl
  \/ RemoveItem
  \/ Return


(***************************************************************************)
(* utils/verification.ts: findThingsDatabase                               *)
(***************************************************************************)
\* readdirSync of a path that is no directory.
NotADirectory == "ENOTDIR: not a directory, scandir"

\* findThingsDatabase on a home directory.  home.exists: 'Library/Group
\* Containers' exists; home.entries: what readdirSync lists there, each entry
\* with whether its name contains the bundle identifier (named), whether it is
\* a directory (dir) and, for a directory, the entries it lists, each with
\* whether its name starts with 'ThingsData-' (prefixed) and whether
\* 'Things Database.thingsdatabase/main.sqlite' exists under it (db).  where is
\* the text the summary tool adds to the first two messages.
findThingsDatabase(home, where) ==
  IF ~home.exists
    THEN [ok |-> FALSE, text |-> "Things group container not found" \o where
                                   \o ". Please ensure Things.app is installed on macOS."]
  ELSE LET matching == SelectSeq(home.entries, LAMBDA entry : entry.named)
       IN IF matching = << >>
            THEN [ok |-> FALSE, text |-> "Things container not found" \o where
                   \o ". Please ensure Things.app is installed and has been launched at least once."]
          ELSE IF ~matching[1].dir
            THEN [ok |-> FALSE, text |-> NotADirectory]
          ELSE LET data == SelectSeq(matching[1].contents, LAMBDA entry : entry.prefixed)
               IN IF data = << >>
                    THEN [ok |-> FALSE, text |-> "ThingsData directory not found."]
                  ELSE IF ~data[1].db
                    THEN [ok |-> FALSE, text |-> "Things database file not found."]
                  ELSE [ok |-> TRUE, text |-> "main.sqlite"]

\* The directory chain on disk; a stage exists only inside the one before it.
FsStates ==
  {f \in [groupContainers : BOOLEAN, container : BOOLEAN,
          dataDir : BOOLEAN, dbFile : BOOLEAN] :
     /\ f.container => f.groupContainers
     /\ f.dataDir => f.container
     /\ f.dbFile => f.dataDir}

\* The directory chain as a home directory: one container, one data directory.
HomeOf(f) ==
  [exists |-> f.groupContainers,
   entries |-> IF f.container
                 THEN << [named |-> TRUE, dir |-> TRUE,
                          contents |-> IF f.dataDir
                                         THEN << [prefixed |-> TRUE, db |-> f.dbFile] >>
                                         ELSE << >>] >>
                 ELSE << >>]

FindThingsDatabase(f) == findThingsDatabase(HomeOf(f), "")

(***************************************************************************)
(* The host application's record of one item, and the row sqlite3 prints.  *)
(***************************************************************************)
Absent == [present |-> FALSE]

StatusOpen == 0
StatusCanceled == 2
StatusCompleted == 3

Titles == {"", "Old", "New"}

Records ==
  [present : {TRUE}, uuid : ItemIds, title : Titles,
   status : {StatusOpen, StatusCanceled, StatusCompleted}, trashed : BOOLEAN]

\* Decimal text of the small numbers the columns hold.
NumText(n) ==
  CASE n = 0 -> "0" [] n = 1 -> "1" [] n = 2 -> "2" [] n = 3 -> "3" [] OTHER -> "4"

\* SELECT uuid, title, type, status, trashed, area, project ... WHERE uuid = id:
\* the fields of the one row, already split at '|' (titles hold no '|' and no
\* newline); NULL columns print as the empty string.
VerifyRows(rec, id) ==
  IF rec.present /\ rec.uuid = id
    THEN << <<rec.uuid, rec.title, "0", NumText(rec.status),
              IF rec.trashed THEN "1" ELSE "0", "", "">> >>
    ELSE <<>>

\* parseInt(text) || 0 on a column of digits or the empty string.
ParseIntOrZero(text) ==
  CASE text = "1" -> 1 [] text = "2" -> 2 [] text = "3" -> 3 [] text = "4" -> 4 [] OTHER -> 0

\* The TaskData object built from a row.
TaskData(row) ==
  [t |-> "object",
   id |-> row[1],
   title |-> IF row[2] # "" THEN Str(row[2]) ELSE Null,
   type |-> ParseIntOrZero(row[3]),
   status |-> ParseIntOrZero(row[4]),
   trashed |-> (row[5] = "1"),
   area_id |-> IF row[6] # "" THEN Str(row[6]) ELSE Null,
   project_id |-> IF row[7] # "" THEN Str(row[7]) ELSE Null]

Returned(v) == [threw |-> FALSE, value |-> v]
Threw(message) == [threw |-> TRUE, value |-> Str(message)]
Running == [threw |-> FALSE, value |-> Undef]

\* A verifyItemExists whose try block did not cover findThingsDatabase.
VerifyItemExistsUncaught(path, rows) ==
  IF ~path.ok THEN Threw(path.text)
  ELSE IF Len(rows) = 0 THEN Returned(Null)
  ELSE Returned(TaskData(rows[1]))

\* verifyItemExists after the wait: the catch turns a failed findThingsDatabase
\* into null, no row into null, and the first row into a TaskData.
VerifyItemExists(path, rows) ==
  IF ~path.ok THEN Returned(Null)
  ELSE IF Len(rows) = 0 THEN Returned(Null)
  ELSE Returned(TaskData(rows[1]))

\* A test that takes every record that is not open for completed.
VerifyItemCompletedNotOpen(path, rows) ==
  LET item == VerifyItemExists(path, rows)
  IN IF item.threw THEN item
     ELSE Returned(Bool(item.value # Null /\ item.value.status # StatusOpen))

\* verifyItemCompleted: item !== null && item.status === 3.
VerifyItemCompleted(path, rows) ==
  LET item == VerifyItemExists(path, rows)
  IN IF item.threw THEN item
     ELSE Returned(Bool(item.value # Null /\ item.value.status = StatusCompleted))

\* verifyItemUpdated: false without an item, false when an expected title
\* (truthy) differs from the item's title, true otherwise.
VerifyItemUpdated(path, rows, expectedTitle) ==
  LET item == VerifyItemExists(path, rows)
  IN IF item.threw THEN item
     ELSE IF item.value = Null THEN Returned(Bool(FALSE))
     ELSE IF Truthy(expectedTitle) /\ item.value.title # expectedTitle
       THEN Returned(Bool(FALSE))
     ELSE Returned(Bool(TRUE))

(***************************************************************************)
(* The verifier's calls, the clock and the host application.               *)
(***************************************************************************)
DefaultWaitMs == 100
\* The clock advances in steps of the default wait.
TickMs == DefaultWaitMs
MaxWaitTicks == 2
MaxPending == 1

VerifyFunctions == {"verifyItemExists", "verifyItemCompleted", "verifyItemUpdated"}

WaitArgs == {Undef} \cup {Num(k * TickMs) : k \in 0..MaxWaitTicks}

\* An id that closes the quoted literal of the query and carries a statement.
CraftedId == "x'; DELETE FROM TMTask; --"

\* The ids a caller passes: the id of the item, and the crafted text.
VerifyIds == ItemIds \cup {CraftedId}

VerifyArgs(fn) ==
  [id : VerifyIds, waitMs : WaitArgs,
   expectedTitle : IF fn = "verifyItemUpdated" THEN {Undef, Str(""), Str("New")} ELSE {Undef}]

\* waitMs: number = 100
EffectiveWait(a) == IF a.waitMs = Undef THEN DefaultWaitMs ELSE a.waitMs.n

HostCommands ==
  {[op |-> "complete"], [op |-> "cancel"], [op |-> "reopen"],
   [op |-> "title", title |-> "New"], [op |-> "create", title |-> "Old"]}

\* What the host application makes of a command; a command whose target does
\* not exist changes nothing.
HostApply(rec, c) ==
  IF c.op = "create"
    THEN IF rec.present THEN rec
         ELSE [present |-> TRUE, uuid |-> "T1", title |-> c.title,
               status |-> StatusOpen, trashed |-> FALSE]
  ELSE IF ~rec.present THEN rec
  ELSE IF c.op = "complete" THEN [rec EXCEPT !.status = StatusCompleted]
  ELSE IF c.op = "cancel" THEN [rec EXCEPT !.status = StatusCanceled]
  ELSE IF c.op = "reopen" THEN [rec EXCEPT !.status = StatusOpen]
  ELSE [rec EXCEPT !.title = c.title]

\* const query = `SELECT ... FROM TMTask WHERE uuid = '${id}'`: the id is pasted
\* into the text unescaped, and the sqlite3 shell runs every statement of the
\* text it is given.  The statements that follow the SELECT, for the ids above.
TrailingStatements(id) ==
  IF id = CraftedId THEN <<"DELETE FROM TMTask">> ELSE <<>>

\* The record after sqlite3 (which opens the file read-write) ran the statements.
SqliteApply(rec, statements) ==
  IF \E i \in DOMAIN statements : statements[i] = "DELETE FROM TMTask"
    THEN Absent
    ELSE rec

NoArgs == [id |-> "T1", waitMs |-> Undef, expectedTitle |-> Undef]
NoPath == [ok |-> FALSE, text |-> "unset"]

InitVerify ==
  /\ fs \in FsStates
  /\ store \in {Absent, [present |-> TRUE, uuid |-> "T1", title |-> "Old",
                          status |-> StatusOpen, trashed |-> FALSE]}
  /\ hostQueue = <<>>
  /\ vfn = "none"
  /\ vargs = NoArgs
  /\ vpc = "idle"
  /\ timer = 0
  /\ waited = 0
  /\ dbPath = NoPath
  /\ sqlResult = <<>>
  /\ vresult = Running
  /\ reads = 0
  /\ vIssued = 0
  /\ storeAtRead = Absent

\* The caller dispatches a write-channel command (fire and forget).
CallerDispatch ==
  /\ vpc = "idle"
  /\ Len(hostQueue) < MaxPending
  /\ \E c \in HostCommands : hostQueue' = Append(hostQueue, c)
  /\ UNCHANGED <<fs, store, vlocals, wvars, svars, fvars, evars, cvars>>

\* The host application processes the oldest command, whenever it gets to it.
HostProcess ==
  /\ hostQueue # <<>>
  /\ store' = HostApply(store, Head(hostQueue))
  /\ hostQueue' = Tail(hostQueue)
  /\ UNCHANGED <<fs, vlocals, wvars, svars, fvars, evars, cvars>>

\* The human user trashes or restores the item in the host application.
UserTrash ==
  /\ store.present
  /\ store' = [store EXCEPT !.trashed = ~store.trashed]
  /\ UNCHANGED <<fs, hostQueue, vlocals, wvars, svars, fvars, evars, cvars>>

\* A verifier function is called: it starts waitForOperation(waitMs).
VerifyCall ==
  /\ vpc = "idle"
  /\ \E fn \in VerifyFunctions : \E a \in VerifyArgs(fn) :
       /\ vfn' = fn
       /\ vargs' = a
       /\ timer' = EffectiveWait(a)
  /\ vpc' = "waiting"
  /\ waited' = 0
  /\ dbPath' = NoPath
  /\ sqlResult' = <<>>
  /\ vresult' = Running
  /\ reads' = 0
  /\ vIssued' = 0
  /\ storeAtRead' = Absent
  /\ UNCHANGED <<fs, store, hostQueue, wvars, svars, fvars, evars, cvars>>

\* Time passes while the timeout is pending.
Tick ==
  /\ vpc = "waiting"
  /\ timer > 0
  /\ timer' = timer - TickMs
  /\ waited' = waited + TickMs
  /\ UNCHANGED <<fs, store, hostQueue, vfn, vargs, vpc, dbPath, sqlResult,
                 vresult, reads, vIssued, storeAtRead, wvars, svars, fvars, evars, cvars>>

\* The timeout fires and findThingsDatabase runs.
VerifyLocate ==
  /\ vpc = "waiting"
  /\ timer = 0
  /\ dbPath' = FindThingsDatabase(fs)
  /\ vpc' = IF dbPath'.ok THEN "query" ELSE "return"
  /\ UNCHANGED <<fs, store, hostQueue, vfn, vargs, timer, waited, sqlResult,
                 vresult, reads, vIssued, storeAtRead, wvars, svars, fvars, evars, cvars>>

\* A read that is repeated once when it finds no row.
VerifyQueryRetrying ==
  /\ vpc = "query"
  /\ \E failed \in BOOLEAN :
       /\ sqlResult' = IF failed THEN <<>> ELSE VerifyRows(store, vargs.id)
       /\ store' = IF failed THEN store
                   ELSE SqliteApply(store, TrailingStatements(vargs.id))
  /\ reads' = reads + 1
  /\ storeAtRead' = store
  /\ vpc' = IF sqlResult' = <<>> /\ reads = 0 THEN "query" ELSE "return"
  /\ UNCHANGED <<fs, hostQueue, vfn, vargs, timer, waited, dbPath, vresult,
                 vIssued, wvars, svars, fvars, evars, cvars>>

\* executeSqlQuery(dbPath, query): the rows of the record as the host holds it
\* now, or no row when the sqlite3 process fails; the statements the id
\* carries after the SELECT run in the same sqlite3 process.
VerifyQuery ==
  /\ vpc = "query"
  /\ \E failed \in BOOLEAN :
       /\ sqlResult' = IF failed THEN <<>> ELSE VerifyRows(store, vargs.id)
       /\ store' = IF failed THEN store
                   ELSE SqliteApply(store, TrailingStatements(vargs.id))
  /\ reads' = reads + 1
  /\ storeAtRead' = store
  /\ vpc' = "return"
  /\ UNCHANGED <<fs, hostQueue, vfn, vargs, timer, waited, dbPath, vresult,
                 vIssued, wvars, svars, fvars, evars, cvars>>

\* The function returns.
VerifyReturn ==
  /\ vpc = "return"
  /\ vresult' =
       (IF vfn = "verifyItemExists" THEN VerifyItemExists(dbPath, sqlResult)
        ELSE IF vfn = "verifyItemCompleted" THEN VerifyItemCompleted(dbPath, sqlResult)
        ELSE VerifyItemUpdated(dbPath, sqlResult, vargs.expectedTitle))
  /\ vpc' = "done"
  /\ UNCHANGED <<fs, store, hostQueue, vfn, vargs, timer, waited, dbPath, sqlResult,
                 reads, vIssued, storeAtRead, wvars, svars, fvars, evars, cvars>>

(***************************************************************************)
(* Update requests handled at the same time                                *)
(***************************************************************************)
RequestIds == {1, 2}
ItemKinds == {"to-do", "project"}

\* The fields the requests vary; every other field is left out.
ConcurrentChoices ==
  [title : {Undef, Str("X"), Str("Y")},
   completed : {Undef, Bool(TRUE), Bool(FALSE)}]

ConcurrentParams ==
  {[f \in FieldNames |->
      IF f = "id" THEN Str("T1")
      ELSE IF f \in DOMAIN v THEN v[f]
      ELSE Undef] : v \in ConcurrentChoices}

\* The tool a caller uses for an item of this kind.
ToolFor(kind) == IF kind = "to-do" THEN "update_todo" ELSE "update_project"

\* The command a handler builds from its own parameters and the token.
CommandOf(t, p, tok) ==
  IF t = "update_todo" THEN UpdateTodoCommands(p, tok)[1]
  ELSE UpdateProjectCommands(p, tok)[1]

NoRequest ==
  [pc |-> "idle", tool |-> "none", params |-> [f \in FieldNames |-> Undef],
   url |-> NoCommand, response |-> NoResponse]

\* The value a URL command carries under a key, or undefined.
QueryValue(u, key) ==
  LET hits == SelectSeq(u.query, LAMBDA kv : kv[1] = key)
  IN IF hits = <<>> THEN Undef ELSE hits[1][2]

\* The attribute a JSON operation carries under a key, or undefined.
AttributeValue(operation, key) ==
  LET hits == SelectSeq(operation.attributes, LAMBDA kv : kv[1] = key)
  IN IF hits = <<>> THEN Undef ELSE hits[1][2]

\* What a command asks the host to write: the title and the status, each
\* undefined when the command does not carry it.
CommandWrites(u) ==
  IF u.command = "json"
    THEN LET done == AttributeValue(QueryValue(u, "data").json[1], "completed")
         IN [title |-> Undef,
             status |-> IF done = Undef THEN Undef
                        ELSE IF done.b THEN Num(StatusCompleted) ELSE Num(StatusOpen)]
    ELSE LET name == QueryValue(u, "title")
             done == QueryValue(u, "completed")
         IN [title |-> IF name = Undef THEN Undef ELSE Str(name.text),
             status |-> IF done = Undef THEN Undef
                        ELSE IF done.text = "true" THEN Num(StatusCompleted)
                        ELSE Num(StatusOpen)]

\* The host application applies a command to the record: it overwrites what
\* the command carries and leaves the rest.
HostApplyCommand(rec, u) ==
  LET w == CommandWrites(u)
  IN [rec EXCEPT !.title = IF w.title = Undef THEN @ ELSE w.title.s,
                 !.status = IF w.status = Undef THEN @ ELSE w.status.n]

ConcurrentAtRest ==
  /\ hostItem = [kind |-> "to-do", title |-> "Old", status |-> StatusOpen]
  /\ requests = [r \in RequestIds |-> NoRequest]
  /\ spawned = <<>>
  /\ hostInbox = <<>>
  /\ processed = <<>>

\* A handler that waits until no other request's open command is running.
UpdateHandlerStartSerialized(r) ==
  /\ requests[r].pc = "idle"
  /\ \A other \in RequestIds \ {r} : requests[other].pc # "open"
  /\ \E p \in ConcurrentParams :
       LET t == ToolFor(hostItem.kind)
           started == [NoRequest EXCEPT !.tool = t, !.params = p]
       IN IF RequireAuthTokenThrows
            THEN /\ requests' = [requests EXCEPT ![r] =
                      [started EXCEPT !.pc = "done",
                                      !.response = Failure(AuthErrorMessage)]]
                 /\ UNCHANGED spawned
          ELSE IF platform # "darwin"
            THEN /\ requests' = [requests EXCEPT ![r] =
                      [started EXCEPT !.pc = "done",
                                      !.url = CommandOf(t, p, getAuthToken.s),
                                      !.response = Failure(PlatformError)]]
                 /\ UNCHANGED spawned
          ELSE /\ requests' = [requests EXCEPT ![r] =
                      [started EXCEPT !.pc = "open",
                                      !.url = CommandOf(t, p, getAuthToken.s)]]
               /\ spawned' = Append(spawned, r)
  /\ UNCHANGED <<hostItem, hostInbox, processed, wvars, vvars, svars, fvars, evars>>

\* The handler of request r runs from its call to the start of the open
\* command without yielding: requireAuthToken, the URL, the platform test of
\* openThingsUrl and execAsync.  Its guard reads nothing of the other request.
UpdateHandlerStart(r) ==
  /\ requests[r].pc = "idle"
  /\ \E p \in ConcurrentParams :
       LET t == ToolFor(hostItem.kind)
           started == [NoRequest EXCEPT !.tool = t, !.params = p]
       IN IF RequireAuthTokenThrows
            THEN /\ requests' = [requests EXCEPT ![r] =
                      [started EXCEPT !.pc = "done",
                                      !.response = Failure(AuthErrorMessage)]]
                 /\ UNCHANGED spawned
          ELSE IF platform # "darwin"
            THEN /\ requests' = [requests EXCEPT ![r] =
                      [started EXCEPT !.pc = "done",
                                      !.url = CommandOf(t, p, getAuthToken.s),
                                      !.response = Failure(PlatformError)]]
                 /\ UNCHANGED spawned
          ELSE /\ requests' = [requests EXCEPT ![r] =
                      [started EXCEPT !.pc = "open",
                                      !.url = CommandOf(t, p, getAuthToken.s)]]
               /\ spawned' = Append(spawned, r)
  /\ UNCHANGED <<hostItem, hostInbox, processed, wvars, vvars, svars, fvars, evars>>

\* The open command of request r ends: it has handed the URL to the host
\* application, or it failed; the handler resumes after its await and returns.
OpenEnds(r) ==
  /\ requests[r].pc = "open"
  /\ \E ok \in BOOLEAN :
       IF ok
         THEN /\ hostInbox' = Append(hostInbox, [request |-> r, url |-> requests[r].url])
              /\ requests' = [requests EXCEPT ![r].pc = "done",
                   ![r].response = Success(
                     (IF requests[r].tool = "update_todo"
                        THEN "Successfully updated to-do: "
                        ELSE "Successfully updated project: ") \o requests[r].params["id"].s)]
         ELSE /\ requests' = [requests EXCEPT ![r].pc = "done",
                                              ![r].response = Failure(ExecError)]
              /\ UNCHANGED hostInbox
  /\ UNCHANGED <<hostItem, spawned, processed, wvars, vvars, svars, fvars, evars>>

\* The host application processes the command that arrived first.
HostProcessCommand ==
  /\ hostInbox # <<>>
  /\ hostItem' = HostApplyCommand(hostItem, Head(hostInbox).url)
  /\ processed' = Append(processed, Head(hostInbox))
  /\ hostInbox' = Tail(hostInbox)
  /\ UNCHANGED <<requests, spawned, wvars, vvars, svars, fvars, evars>>

NextConcurrent ==
  \/ \E r \in RequestIds : UpdateHandlerStart(r)
  \/ \E r \in RequestIds : OpenEnds(r)
  \/ HostProcessCommand

(***************************************************************************)
(* tools/things-summary.ts: the database, as sqlite3 prints it             *)
(***************************************************************************)
\* A nullable numeric column holds NULL or a number.
SqlNull == [null |-> TRUE]
SqlNum(n) == [num |-> n]

\* sqlite3 prints NULL as the empty string and a number in decimal.
SqlText(cell) == IF cell = SqlNull THEN "" ELSE ToString(cell.num)

\* The calendar days the stored dates fall on, in ascending order.
Days == << <<2024, 1, 14>>, <<2024, 1, 15>>, <<2024, 1, 16>> >>

\* Things stores startDate and deadline with year, month and day packed in bits.
PackDate(ymd) == ymd[1] * 65536 + ymd[2] * 4096 + ymd[3] * 128

\* creationDate is stored as seconds since 1970; these fall on Days[1..3], 09:30 UTC.
CreationSeconds == <<1705224600, 1705311000, 1705397400>>

\* The years of the calendar dates the date decoder is called with: the first
\* year, a leap year, and the last year the eleven bits of the year field hold.
PackedYears == {1, 2024, 2047}

DaysInMonth(y, m) ==
  IF m = 2
    THEN IF y % 4 = 0 /\ (y % 100 # 0 \/ y % 400 = 0) THEN 29 ELSE 28
  ELSE IF m \in {4, 6, 9, 11} THEN 30
  ELSE 31

\* Every calendar date of those years.
ValidTriples ==
  {ymd \in PackedYears \X (1..12) \X (1..31) : ymd[3] <= DaysInMonth(ymd[1], ymd[2])}

\* Every number whose decimal text the model parses: the numbers a column of
\* the model's database can print, and the packed dates above.
Numerals ==
  (0..3) \cup {PackDate(Days[i]) : i \in DOMAIN Days}
         \cup {CreationSeconds[i] : i \in DOMAIN CreationSeconds}
         \cup {PackDate(ymd) : ymd \in ValidTriples}

\* The number each decimal text denotes.
NumeralText == [text \in {ToString(n) : n \in Numerals} |->
                  CHOOSE n \in Numerals : ToString(n) = text]

NaN == [t |-> "number", nan |-> TRUE]

\* parseInt / parseFloat of a column: the number the digits denote, NaN for other text.
ParseInt(text) ==
  IF text \in DOMAIN NumeralText THEN Num(NumeralText[text]) ELSE NaN

\* n.toString().padStart(2, '0')
PadStart2(n) == IF n < 10 THEN "0" \o ToString(n) ELSE ToString(n)

\* The UTC calendar day of a count of days since 1970-01-01, as Date computes it.
CivilFromDays(days) ==
  LET z == days + 719468
      era == z \div 146097
      doe == z - era * 146097
      yoe == (doe - doe \div 1460 + doe \div 36524 - doe \div 146096) \div 365
      doy == doe - (365 * yoe + yoe \div 4 - yoe \div 100)
      mp == (5 * doy + 2) \div 153
      d == doy - (153 * mp + 2) \div 5 + 1
      m == IF mp < 10 THEN mp + 3 ELSE mp - 9
      y == yoe + era * 400 + (IF m <= 2 THEN 1 ELSE 0)
  IN <<y, m, d>>

\* `${year}-${month padded}-${day padded}`, also toISOString().split('T')[0]
\* for the four-digit years of the model.
IsoDate(ymd) == ToString(ymd[1]) \o "-" \o PadStart2(ymd[2]) \o "-" \o PadStart2(ymd[3])

\* A decoder whose month mask has three bits.
DecodePackedNarrowMonth(thingsDate) ==
  <<(thingsDate \div 65536) % 2048, (thingsDate \div 4096) % 8, (thingsDate \div 128) % 32>>

\* (thingsDate & y_mask) >> 16, (thingsDate & m_mask) >> 12, (thingsDate & d_mask) >> 7:
\* eleven bits of year from bit 16, four of month from bit 12, five of day from bit 7.
DecodePacked(thingsDate) ==
  <<(thingsDate \div 65536) % 2048, (thingsDate \div 4096) % 16, (thingsDate \div 128) % 32>>

formatDate(timestamp, isDateField) ==
  IF timestamp = "" \/ timestamp = "NULL" THEN ""
  ELSE IF isDateField
    THEN LET thingsDate == ParseInt(timestamp)
         IN IF thingsDate = NaN \/ thingsDate = Num(0) THEN ""
            ELSE IsoDate(DecodePacked(thingsDate.n))
    ELSE LET seconds == ParseInt(timestamp)
         IN IF seconds = NaN THEN ""
            ELSE IsoDate(CivilFromDays(seconds.n \div 86400))

\* formatDate called with a value of a row: !timestamp holds of undefined, of
\* null and of the empty string.
formatDateOf(timestamp, isDateField) ==
  IF ~Truthy(timestamp) THEN "" ELSE formatDate(timestamp.s, isDateField)

\* Date.prototype.toISOString of an instant given as whole days since
\* 1970-01-01 and seconds into the day.
IsoTimestamp(days, inDay) ==
  IsoDate(CivilFromDays(days)) \o "T" \o PadStart2(inDay \div 3600)
    \o ":" \o PadStart2((inDay % 3600) \div 60) \o ":" \o PadStart2(inDay % 60) \o ".000Z"

\* new Date((a + b) * 1000).toISOString() for whole numbers of seconds; the
\* sum is taken on days and seconds of the day, as it exceeds 32 bits.
ToISOString(a, b) ==
  LET inDay == (a % 86400) + (b % 86400)
  IN IsoTimestamp((a \div 86400) + (b \div 86400) + (inDay \div 86400), inDay % 86400)

\* Seconds between 1970-01-01 and 2001-01-01, which the export adds to a timestamp.
CocoaEpochOffset == 978307200

\* formatDate of tools/export-json.ts: null for a falsy timestamp and for
\* 'NULL'; toISOString throws on an invalid date and the catch returns null.
formatDateExport(timestamp) ==
  IF ~Truthy(timestamp) \/ timestamp = Str("NULL") THEN Null
  ELSE LET seconds == ParseInt(timestamp.s)
       IN IF seconds = NaN THEN Null
          ELSE Str(ToISOString(seconds.n, CocoaEpochOffset))

\* The ISO date texts of the model in the order JavaScript's string < gives them.
IsoOrder == [i \in DOMAIN Days |-> IsoDate(Days[i])]

\* a < b on two ISO date texts.
StringLess(a, b) ==
  (CHOOSE i \in DOMAIN IsoOrder : IsoOrder[i] = a) < (CHOOSE i \in DOMAIN IsoOrder : IsoOrder[i] = b)

\* generateThingsUrl('show', id); the identifiers hold no character that
\* encodeURIComponent changes.
generateThingsUrl(type, id) ==
  "things:///" \o type \o (IF id # "" THEN "?id=" \o id ELSE "")

\* generateThingsUrl('show', undefined, {key: value})
generateThingsUrlParams(type, key, value) == "things:///" \o type \o "?" \o key \o "=" \o value

\* TMTask.type
TypeTask == 0
TypeProject == 1
TypeHeading == 2

\* A TMTask record of the model: to-dos and projects carry a title, a kind, a
\* status, the trashed flag, three dates and the identifiers of area and project.
TaskRecord(uuid, title, type, area, project, created) ==
  [uuid |-> uuid, title |-> title, notes |-> "", type |-> type,
   status |-> StatusOpen, trashed |-> 0,
   creationDate |-> SqlNum(CreationSeconds[created]),
   startDate |-> SqlNull, deadline |-> SqlNull,
   area |-> area, project |-> project,
   checklistItemsCount |-> 0, openChecklistItemsCount |-> 0]

\* The database the model starts from: area Work holds project Proj, Proj
\* holds to-do T1 (tagged a), to-do T2 is in the inbox and has one checklist
\* item (TMChecklistItem).
SeedDb ==
  [areas |-> << [uuid |-> "A1", title |-> "Work", visible |-> 1] >>,
   tags |-> << [uuid |-> "G1", title |-> "a", shortcut |-> ""],
               [uuid |-> "G2", title |-> "b", shortcut |-> ""] >>,
   tasks |-> << TaskRecord("P1", "Proj", TypeProject, "A1", "", 1),
                TaskRecord("T1", "Call", TypeTask, "", "P1", 1),
                [TaskRecord("T2", "Read", TypeTask, "", "", 2) EXCEPT
                   !.checklistItemsCount = 1, !.openChecklistItemsCount = 1] >>,
   taskTags |-> << [tasks |-> "T1", tags |-> "G1"] >>,
   checklist |-> << [uuid |-> "K1", title |-> "Page 1", status |-> StatusOpen,
                     creationDate |-> SqlNum(CreationSeconds[2]), task |-> "T2"] >>]

\* SELECT uuid, title, visible FROM TMArea
SelectAreas(d) ==
  [i \in DOMAIN d.areas |->
     <<d.areas[i].uuid, d.areas[i].title, ToString(d.areas[i].visible)>>]

\* SELECT uuid, title, shortcut FROM TMTag
SelectTags(d) ==
  [i \in DOMAIN d.tags |-> <<d.tags[i].uuid, d.tags[i].title, d.tags[i].shortcut>>]

\* The status filter: 'status = 0 AND trashed = 0', or 'trashed = 0' with includeCompleted.
StatusFilter(p, r) ==
  IF Truthy(p.includeCompleted) THEN r.trashed = 0
  ELSE r.status = 0 /\ r.trashed = 0

TaskColumns(r) ==
  <<r.uuid, r.title, r.notes, ToString(r.type), SqlText(r.creationDate),
    SqlText(r.startDate), SqlText(r.deadline), r.area, r.project,
    ToString(r.checklistItemsCount), ToString(r.openChecklistItemsCount)>>

\* SELECT uuid, title, notes, type, creationDate, startDate, deadline, area,
\* project, checklistItemsCount, openChecklistItemsCount FROM TMTask WHERE ${statusFilter}
SelectTasks(d, p) ==
  LET kept == SelectSeq(d.tasks, LAMBDA r : StatusFilter(p, r))
  IN [i \in DOMAIN kept |-> TaskColumns(kept[i])]

\* SELECT tasks, tags FROM TMTaskTag
SelectTaskTags(d) ==
  [i \in DOMAIN d.taskTags |-> <<d.taskTags[i].tasks, d.taskTags[i].tags>>]

\* executeSqlQuery: the rows sqlite3 printed, split at newline and '|' (the
\* texts of the model hold neither); [] when the command fails.
executeSqlQuery(rows, fails) == IF fails THEN <<>> ELSE rows

(***************************************************************************)
(* tools/things-summary.ts: getThingsSummary                               *)
(***************************************************************************)
\* objects.find(x => x.id === id): the first object with the id, or undefined.
FindById(objects, id) ==
  LET hits == {i \in DOMAIN objects : objects[i].o.id = Str(id)}
  IN IF hits = {} THEN Undef ELSE objects[CHOOSE i \in hits : \A j \in hits : i <= j]

\* Array.prototype.includes on an array of strings.
Includes(a, s) == \E i \in DOMAIN a : a[i] = s

\* An optional property: present only under the condition.
Property(condition, key, value) == IF condition THEN key :> value ELSE <<>>

\* obj[key], undefined when the object has no such property.
Get(v, key) == IF key \in DOMAIN v.o THEN v.o[key] ELSE Undef

AreaObject(row) ==
  Obj([id |-> Str(row[1]),
       name |-> Str(IF row[2] # "" THEN row[2] ELSE "Unnamed Area"),
       thingsUrl |-> Str(generateThingsUrl("show", row[1]))]
      @@ Property(row[3] = "1", "visible", Bool(TRUE)))

TagObject(row) ==
  Obj([id |-> Str(row[1]),
       name |-> Str(IF row[2] # "" THEN row[2] ELSE "Unnamed Tag"),
       shortcut |-> IF row[3] # "" THEN Str(row[3]) ELSE Undef,
       taskCount |-> Num(0),
       thingsUrl |-> Str(generateThingsUrlParams("show", "filter", row[2]))])

\* projectMap.get(id): the title of the last loaded project row with that uuid.
ProjectMapGet(tasksData, id) ==
  LET rows == {i \in DOMAIN tasksData : tasksData[i][4] = "1" /\ tasksData[i][1] = id}
  IN IF rows = {} THEN Undef
     ELSE Str(tasksData[CHOOSE i \in rows : \A j \in rows : j <= i][2])

\* parseInt(text) || 0
ParseIntOr0(text) == IF ParseInt(text) = NaN THEN 0 ELSE ParseInt(text).n

\* A task built with the area reference taken from the row's area column,
\* whether or not the area was loaded.
TaskObjectAreaFromColumn(row, areas, tasksData) ==
  LET taskType == IF row[4] = "0" THEN "task"
                  ELSE IF row[4] = "1" THEN "project" ELSE "heading"
      areaInfo == FindById(areas, row[8])
      projectName == IF row[9] # "" THEN ProjectMapGet(tasksData, row[9]) ELSE Null
      creationDate == formatDate(row[5], FALSE)
      startDate == formatDate(row[6], TRUE)
      deadline == formatDate(row[7], TRUE)
      checklistTotal == ParseIntOr0(row[10])
      checklistOpen == ParseIntOr0(row[11])
  IN Obj([id |-> Str(row[1]),
          title |-> Str(IF row[2] # "" THEN row[2] ELSE "Untitled"),
          type |-> Str(taskType),
          thingsUrl |-> Str(generateThingsUrl("show", row[1]))]
         @@ Property(row[3] # "", "notes", Str(row[3]))
         @@ Property(creationDate # "", "creationDate", Str(creationDate))
         @@ Property(startDate # "", "startDate", Str(startDate))
         @@ Property(deadline # "", "deadline", Str(deadline))
         @@ Property(row[8] # "", "area",
                     Obj([id |-> Str(row[8]),
                          name |-> IF Truthy(areaInfo) THEN Get(areaInfo, "name")
                                   ELSE Str("Unnamed Area")]))
         @@ Property(Truthy(projectName), "project",
                     Obj([id |-> Str(row[9]), name |-> projectName]))
         @@ Property(checklistTotal > 0 \/ checklistOpen > 0, "checklistItems",
                     Obj([total |-> Num(checklistTotal), open |-> Num(checklistOpen)])))

\* One element of allTasks, before the tags are attached.
TaskObject(row, areas, tasksData) ==
  LET taskType == IF row[4] = "0" THEN "task"
                  ELSE IF row[4] = "1" THEN "project" ELSE "heading"
      areaInfo == FindById(areas, row[8])
      projectName == IF row[9] # "" THEN ProjectMapGet(tasksData, row[9]) ELSE Null
      creationDate == formatDate(row[5], FALSE)
      startDate == formatDate(row[6], TRUE)
      deadline == formatDate(row[7], TRUE)
      checklistTotal == ParseIntOr0(row[10])
      checklistOpen == ParseIntOr0(row[11])
  IN Obj([id |-> Str(row[1]),
          title |-> Str(IF row[2] # "" THEN row[2] ELSE "Untitled"),
          type |-> Str(taskType),
          thingsUrl |-> Str(generateThingsUrl("show", row[1]))]
         @@ Property(row[3] # "", "notes", Str(row[3]))
         @@ Property(creationDate # "", "creationDate", Str(creationDate))
         @@ Property(startDate # "", "startDate", Str(startDate))
         @@ Property(deadline # "", "deadline", Str(deadline))
         @@ Property(Truthy(areaInfo), "area",
                     Obj([id |-> Get(areaInfo, "id"), name |-> Get(areaInfo, "name")]))
         @@ Property(Truthy(projectName), "project",
                     Obj([id |-> Str(row[9]), name |-> projectName]))
         @@ Property(checklistTotal > 0 \/ checklistOpen > 0, "checklistItems",
                     Obj([total |-> Num(checklistTotal), open |-> Num(checklistOpen)])))

\* Index of the first element of a sequence of objects with the given id (0 if none):
\* where allTasks.find / tags.find lands.
FirstWithId(objects, id) ==
  LET hits == {i \in DOMAIN objects : objects[i].o.id = Str(id)}
  IN IF hits = {} THEN 0 ELSE CHOOSE i \in hits : \A j \in hits : i <= j

\* The TMTaskTag rows whose task and tag are both found, in order.
JoinedRows(allTasks, tags, taskTagData) ==
  SelectSeq(taskTagData,
            LAMBDA row : FirstWithId(allTasks, row[1]) # 0 /\ FirstWithId(tags, row[2]) # 0)

\* allTasks after the TMTaskTag loop: each joined row pushed {id, name} of its
\* tag onto its task.
AttachTags(allTasks, tags, taskTagData) ==
  LET joined == JoinedRows(allTasks, tags, taskTagData)
  IN
  [i \in DOMAIN allTasks |->
     LET mine == SelectSeq(joined, LAMBDA row : FirstWithId(allTasks, row[1]) = i)
         refs == [k \in DOMAIN mine |->
                    LET tag == tags[FirstWithId(tags, mine[k][2])]
                    IN Obj([id |-> tag.o.id, name |-> tag.o.name])]
     IN IF mine = <<>> THEN allTasks[i]
        ELSE Obj(allTasks[i].o @@ ("tags" :> Arr(refs)))]

\* tags after the TMTaskTag loop: each joined row incremented its tag's taskCount.
CountTags(allTasks, tags, taskTagData) ==
  LET joined == JoinedRows(allTasks, tags, taskTagData)
  IN
  [j \in DOMAIN tags |->
     LET mine == SelectSeq(joined, LAMBDA row : FirstWithId(tags, row[2]) = j)
     IN Obj([tags[j].o EXCEPT !.taskCount = Num(Len(mine))])]

\* params.x && params.x.length > 0
NonEmptyArray(v) == Truthy(v) /\ Len(v.a) > 0

\* Apply tag filtering
TagFilter(tasks, p) ==
  IF NonEmptyArray(p.tags)
    THEN SelectSeq(tasks, LAMBDA task :
           /\ Truthy(Get(task, "tags"))
           /\ \E i \in DOMAIN task.o.tags.a : Includes(p.tags.a, task.o.tags.a[i].o.name.s))
    ELSE tasks

\* Apply project filtering
ProjectFilter(tasks, p) ==
  IF NonEmptyArray(p.projects)
    THEN SelectSeq(tasks, LAMBDA task :
           \/ task.o.type = Str("project") /\ Includes(p.projects.a, task.o.title.s)
           \/ Truthy(Get(task, "project")) /\ Includes(p.projects.a, task.o.project.o.name.s))
    ELSE tasks

\* [task.creationDate, task.startDate, task.deadline].filter(Boolean)
TaskDates(task) ==
  SelectSeq(<<Get(task, "creationDate"), Get(task, "startDate"), Get(task, "deadline")>>, Truthy)

\* A date range filter that asks every present date to be in the range.
DateRangeFilterEvery(tasks, p) ==
  IF Truthy(p.dateRange)
    THEN LET from == Get(p.dateRange, "from")
             to == Get(p.dateRange, "to")
         IN SelectSeq(tasks, LAMBDA task :
              \A i \in DOMAIN TaskDates(task) :
                LET date == TaskDates(task)[i].s
                IN /\ ~(Truthy(from) /\ StringLess(date, from.s))
                   /\ ~(Truthy(to) /\ StringLess(to.s, date)))
    ELSE tasks

\* Apply date range filtering
DateRangeFilter(tasks, p) ==
  IF Truthy(p.dateRange)
    THEN LET from == Get(p.dateRange, "from")
             to == Get(p.dateRange, "to")
         IN SelectSeq(tasks, LAMBDA task :
              \E i \in DOMAIN TaskDates(task) :
                LET date == TaskDates(task)[i].s
                IN /\ ~(Truthy(from) /\ StringLess(date, from.s))
                   /\ ~(Truthy(to) /\ StringLess(to.s, date)))
    ELSE tasks

\* filteredTasks: the three filters in sequence.
FilteredTasks(allTasks, p) == DateRangeFilter(ProjectFilter(TagFilter(allTasks, p), p), p)

\* x?.id === id
HasId(v, id) == Truthy(v) /\ v.o.id = id

\* A project of the result: projects.forEach gave it the tasks that refer to it.
WithProjectTasks(project, tasks) ==
  LET projectTasks == SelectSeq(tasks, LAMBDA task : HasId(Get(task, "project"), project.o.id))
  IN IF Len(projectTasks) > 0 THEN Obj(project.o @@ ("tasks" :> Arr(projectTasks)))
     ELSE project

\* An area that takes every task that refers to it, also those inside a project.
WithAreaContentsAll(area, projects, tasks) ==
  LET areaProjects == SelectSeq(projects, LAMBDA project : HasId(Get(project, "area"), area.o.id))
      areaTasks == SelectSeq(tasks, LAMBDA task : HasId(Get(task, "area"), area.o.id))
  IN Obj(area.o @@ Property(Len(areaProjects) > 0, "projects", Arr(areaProjects))
                @@ Property(Len(areaTasks) > 0, "tasks", Arr(areaTasks)))

\* An area of the result: filteredAreas.forEach gave it its projects and its
\* tasks outside projects.
WithAreaContents(area, projects, tasks) ==
  LET areaProjects == SelectSeq(projects, LAMBDA project : HasId(Get(project, "area"), area.o.id))
      areaTasks == SelectSeq(tasks, LAMBDA task :
                     HasId(Get(task, "area"), area.o.id) /\ ~Truthy(Get(task, "project")))
  IN Obj(area.o @@ Property(Len(areaProjects) > 0, "projects", Arr(areaProjects))
                @@ Property(Len(areaTasks) > 0, "tasks", Arr(areaTasks)))

\* The dropped values of compressObject's loop.
Dropped(key, value) ==
  \/ value.t \in {"null", "undefined"}
  \/ value = Str("")
  \/ value.t = "array" /\ Len(value.a) = 0
  \/ /\ key = "checklistItems" /\ value.t = "object"
     /\ Get(value, "total") = Num(0) /\ Get(value, "open") = Num(0)

RECURSIVE compressObjectFilterFirst(_)
\* A compressObject whose array branch filters before it maps: an element
\* that compresses to undefined stays in the array.
compressObjectFilterFirst(obj) ==
  IF obj.t = "array"
    THEN LET filtered == SelectSeq(obj.a, LAMBDA item : item.t \notin {"null", "undefined"})
             mapped == [i \in DOMAIN filtered |-> compressObjectFilterFirst(filtered[i])]
         IN IF Len(mapped) > 0 THEN Arr(mapped) ELSE Undef
  ELSE IF obj.t = "object"
    THEN LET values == [key \in DOMAIN obj.o |-> compressObjectFilterFirst(obj.o[key])]
             kept == {key \in DOMAIN obj.o : ~Dropped(key, values[key])}
         IN IF kept # {} THEN Obj([key \in kept |-> values[key]]) ELSE Undef
  ELSE obj

RECURSIVE compressObject(_)
compressObject(obj) ==
  IF obj.t = "array"
    THEN LET mapped == [i \in DOMAIN obj.a |-> compressObject(obj.a[i])]
             filtered == SelectSeq(mapped, LAMBDA item : item.t \notin {"null", "undefined"})
         IN IF Len(filtered) > 0 THEN Arr(filtered) ELSE Undef
  ELSE IF obj.t = "object"
    THEN LET values == [key \in DOMAIN obj.o |-> compressObject(obj.o[key])]
             kept == {key \in DOMAIN obj.o : ~Dropped(key, values[key])}
         IN IF kept # {} THEN Obj([key \in kept |-> values[key]]) ELSE Undef
  ELSE obj

\* The areas built from the TMArea rows.
Areas(data) == [i \in DOMAIN data.areas |-> AreaObject(data.areas[i])]

\* The tags built from the TMTag rows, before counting.
LoadedTags(data) == [i \in DOMAIN data.tags |-> TagObject(data.tags[i])]

\* allTasks before the TMTaskTag loop.
BuiltTasks(data) ==
  [i \in DOMAIN data.tasks |-> TaskObject(data.tasks[i], Areas(data), data.tasks)]

\* allTasks after the TMTaskTag loop.
AllTasks(data) == AttachTags(BuiltTasks(data), LoadedTags(data), data.taskTags)

\* lastUpdated: new Date().toISOString() at 09:30 UTC of the day.
IsoInstant(now) == IsoDate(Days[now]) \o "T09:30:00.000Z"

\* Filter areas if specified
FilteredAreas(areas, p) ==
  IF NonEmptyArray(p.areas)
    THEN SelectSeq(areas, LAMBDA area : Includes(p.areas.a, area.o.name.s))
    ELSE areas

\* getThingsSummary from "Separate tasks by type" on: the partition, the
\* nesting, the inactive areas and tags, the sections and the compression.
Organize(p, filteredAreas, tags, filtered, now) ==
  LET tasks == SelectSeq(filtered, LAMBDA task : task.o.type = Str("task"))
      plainProjects == SelectSeq(filtered, LAMBDA task : task.o.type = Str("project"))
      projects == [i \in DOMAIN plainProjects |-> WithProjectTasks(plainProjects[i], tasks)]
      inboxTasks == SelectSeq(tasks, LAMBDA task :
                      ~Truthy(Get(task, "area")) /\ ~Truthy(Get(task, "project")))
      today == IsoDate(Days[now])
      todayTasks == SelectSeq(tasks, LAMBDA task : Get(task, "startDate") = Str(today))
      organized == [i \in DOMAIN filteredAreas |->
                      WithAreaContents(filteredAreas[i], projects, tasks)]
      activeAreas ==
        IF Truthy(p.includeInactive) THEN organized
        ELSE SelectSeq(organized, LAMBDA area :
               \/ NonEmptyArray(Get(area, "projects"))
               \/ NonEmptyArray(Get(area, "tasks")))
      activeTags ==
        IF Truthy(p.includeInactive) THEN tags
        ELSE SelectSeq(tags, LAMBDA tag : tag.o.taskCount.n > 0)
  IN compressObject(
       Obj([summary |-> Obj([totalOpenTasks |-> Num(Len(tasks)),
                             totalActiveProjects |-> Num(Len(projects)),
                             totalAreas |-> Num(Len(activeAreas)),
                             totalTags |-> Num(Len(activeTags)),
                             lastUpdated |-> Str(IsoInstant(now))]),
            urls |-> Obj([showToday |-> Str(generateThingsUrlParams("show", "list", "today")),
                          showInbox |-> Str(generateThingsUrlParams("show", "list", "inbox")),
                          showProjects |-> Str(generateThingsUrlParams("show", "list", "projects")),
                          showAreas |-> Str(generateThingsUrlParams("show", "list", "areas"))])]
           @@ Property(Len(activeAreas) > 0, "areas", Arr(activeAreas))
           @@ Property(Len(inboxTasks) > 0, "inboxTasks", Arr(inboxTasks))
           @@ Property(Len(todayTasks) > 0, "todayTasks", Arr(todayTasks))
           @@ Property(Len(projects) > 0, "projects", Arr(projects))
           @@ Property(Len(activeTags) > 0, "tags", Arr(activeTags))))

\* getThingsSummary after findThingsDatabase: data holds the rows of the four
\* queries, now is the day new Date() falls on.
getThingsSummary(p, data, now) ==
  Organize(p,
           FilteredAreas(Areas(data), p),
           CountTags(BuiltTasks(data), LoadedTags(data), data.taskTags),
           FilteredTasks(AllTasks(data), p),
           now)

\* findThingsDatabase of the summary tool: the stages of utils/verification.ts
\* with the container path in the first two messages.
FindThingsDatabaseSummary(f) ==
  findThingsDatabase(HomeOf(f), " in ~/Library/Group Containers")

(***************************************************************************)
(* tools/things-summary.ts: the things_summary handler and its environment *)
(***************************************************************************)
MaxEdits == 2
MaxFilters == 1
MaxFailures == 1

Booleans == {Bool(FALSE), Bool(TRUE)}
AreaFilters == {Undef, Arr(<<"Work">>)}
TagFilters == {Undef, Arr(<<"a">>), Arr(<<"a", "b">>)}
ProjectFilters == {Undef, Arr(<<"Proj">>)}
DateRanges == {Undef, Obj([from |-> Str(IsoDate(Days[2])), to |-> Str(IsoDate(Days[2]))])}

\* The parameters after zod parsing: both flags default to false; the rendering
\* (format) does not enter the data and is left at json.
DefaultParams ==
  [format |-> "json", includeCompleted |-> Bool(FALSE), areas |-> Undef, tags |-> Undef,
   projects |-> Undef, dateRange |-> Undef, includeInactive |-> Bool(FALSE)]

\* Requests that set at most MaxFilters options.
SummaryParams ==
  {p \in [format : {"json"}, includeCompleted : Booleans, areas : AreaFilters,
          tags : TagFilters, projects : ProjectFilters, dateRange : DateRanges,
          includeInactive : Booleans] :
     Cardinality({k \in DOMAIN p : p[k] # DefaultParams[k]}) <= MaxFilters}

\* The arguments a caller sends: the declared options and includeTrash, which
\* summarySchema does not declare; at most MaxFilters of them are set.
DefaultArgs == DefaultParams @@ [includeTrash |-> Undef]

SummaryArgs ==
  {a \in [format : {"json"}, includeCompleted : Booleans, areas : AreaFilters,
          tags : TagFilters, projects : ProjectFilters, dateRange : DateRanges,
          includeInactive : Booleans, includeTrash : {Undef, Bool(TRUE)}] :
     Cardinality({k \in DOMAIN a : a[k] # DefaultArgs[k]}) <= MaxFilters}

\* z.object(summarySchema.shape).parse: the declared keys, any other key stripped.
ParseSummaryArgs(a) == [k \in DOMAIN DefaultParams |-> a[k]]

QueryNames == {"areas", "tags", "tasks", "taskTags"}

\* The sets of queries whose sqlite3 command can fail in one request.
Failures == {broken \in SUBSET QueryNames : Cardinality(broken) <= MaxFailures}

\* The days new Date() falls on (indexes into Days).
Clock == {2}

NoRows == [areas |-> <<>>, tags |-> <<>>, tasks |-> <<>>, taskTags |-> <<>>]

AllStages == [groupContainers |-> TRUE, container |-> TRUE, dataDir |-> TRUE, dbFile |-> TRUE]

SummaryAtRest ==
  /\ db = SeedDb
  /\ edits = 0
  /\ spc = "idle"
  /\ sargs = DefaultArgs
  /\ sparams = DefaultParams
  /\ loaded = NoRows
  /\ failedQueries = {}
  /\ filteredTasks = <<>>
  /\ summary = Running

\* The four queries of one request; each prints its rows or fails.
LoadRows(d, p, broken) ==
  [areas |-> executeSqlQuery(SelectAreas(d), "areas" \in broken),
   tags |-> executeSqlQuery(SelectTags(d), "tags" \in broken),
   tasks |-> executeSqlQuery(SelectTasks(d, p), "tasks" \in broken),
   taskTags |-> executeSqlQuery(SelectTaskTags(d), "taskTags" \in broken)]

\* A handler whose executeSqlQuery has no catch: the error of a failed sqlite3
\* command leaves getThingsSummary and the handler.
SummaryPropagating ==
  /\ spc = "idle"
  /\ epc = "idle"
  /\ \E a \in SummaryArgs : LET p == ParseSummaryArgs(a) IN
       /\ sargs' = a
       /\ sparams' = p
       /\ IF platform # "darwin"
            THEN /\ loaded' = NoRows
                 /\ failedQueries' = {}
                 /\ filteredTasks' = <<>>
                 /\ summary' = Threw("Things database access is only available on macOS")
          ELSE IF ~FindThingsDatabaseSummary(fs).ok
            THEN /\ loaded' = NoRows
                 /\ failedQueries' = {}
                 /\ filteredTasks' = <<>>
                 /\ summary' = Threw(FindThingsDatabaseSummary(fs).text)
          ELSE \E broken \in Failures, now \in Clock :
                 /\ loaded' = LoadRows(db, p, broken)
                 /\ failedQueries' = broken
                 /\ filteredTasks' = FilteredTasks(AllTasks(loaded'), p)
                 /\ summary' = IF broken = {} THEN Returned(getThingsSummary(p, loaded', now))
                               ELSE Threw(ExecError)
  /\ spc' = "done"
  /\ UNCHANGED <<db, edits, wvars, vvars, fvars, evars, cvars>>

\* A handler that answers from the rows of the database as it was when the
\* server started.
SummaryFromSnapshot ==
  /\ spc = "idle"
  /\ epc = "idle"
  /\ \E a \in SummaryArgs : LET p == ParseSummaryArgs(a) IN
       /\ sargs' = a
       /\ sparams' = p
       /\ IF platform # "darwin"
            THEN /\ loaded' = NoRows
                 /\ failedQueries' = {}
                 /\ filteredTasks' = <<>>
                 /\ summary' = Threw("Things database access is only available on macOS")
          ELSE IF ~FindThingsDatabaseSummary(fs).ok
            THEN /\ loaded' = NoRows
                 /\ failedQueries' = {}
                 /\ filteredTasks' = <<>>
                 /\ summary' = Threw(FindThingsDatabaseSummary(fs).text)
          ELSE \E broken \in Failures, now \in Clock :
                 /\ loaded' = LoadRows(SeedDb, p, broken)
                 /\ failedQueries' = broken
                 /\ filteredTasks' = FilteredTasks(AllTasks(loaded'), p)
                 /\ summary' = Returned(getThingsSummary(p, loaded', now))
  /\ spc' = "done"
  /\ UNCHANGED <<db, edits, wvars, vvars, fvars, evars, cvars>>

\* The things_summary handler: it runs to its return without yielding (every
\* query is an execSync).
Summary ==
  /\ spc = "idle"
  /\ epc = "idle"
  /\ \E a \in SummaryArgs : LET p == ParseSummaryArgs(a) IN
       /\ sargs' = a
       /\ sparams' = p
       /\ IF platform # "darwin"
            THEN /\ loaded' = NoRows
                 /\ failedQueries' = {}
                 /\ filteredTasks' = <<>>
                 /\ summary' = Threw("Things database access is only available on macOS")
          ELSE IF ~FindThingsDatabaseSummary(fs).ok
            THEN /\ loaded' = NoRows
                 /\ failedQueries' = {}
                 /\ filteredTasks' = <<>>
                 /\ summary' = Threw(FindThingsDatabaseSummary(fs).text)
          ELSE \E broken \in Failures, now \in Clock :
                 /\ loaded' = LoadRows(db, p, broken)
                 /\ failedQueries' = broken
                 /\ filteredTasks' = FilteredTasks(AllTasks(loaded'), p)
                 /\ summary' = Returned(getThingsSummary(p, loaded', now))
  /\ spc' = "done"
  /\ UNCHANGED <<db, edits, wvars, vvars, fvars, evars, cvars>>

\* The response has been sent; the tree is discarded.
SummaryReturn ==
  /\ spc = "done"
  /\ spc' = "idle"
  /\ sargs' = DefaultArgs
  /\ sparams' = DefaultParams
  /\ loaded' = NoRows
  /\ failedQueries' = {}
  /\ filteredTasks' = <<>>
  /\ summary' = Running
  /\ UNCHANGED <<db, edits, wvars, vvars, fvars, evars, cvars>>

(***************************************************************************)
(* The user's changes in the host application, between requests.           *)
(***************************************************************************)
\* The user edits while no request is being served.
CanEdit == spc = "idle" /\ epc = "idle" /\ edits < MaxEdits /\ fs.dbFile

TaskIds(d) == {d.tasks[i].uuid : i \in DOMAIN d.tasks}

TaskRow(d, id) == d.tasks[CHOOSE i \in DOMAIN d.tasks : d.tasks[i].uuid = id]

\* The database with one column of one TMTask row changed.
EditTask(d, id, column, value) ==
  LET rows == d.tasks
  IN [d EXCEPT !.tasks = [i \in DOMAIN rows |->
                            IF rows[i].uuid = id THEN [rows[i] EXCEPT ![column] = value]
                            ELSE rows[i]]]

Edited == UNCHANGED <<spc, sargs, sparams, loaded, failedQueries, filteredTasks, summary, wvars, vvars, fvars, evars, cvars>>

\* Complete, cancel or reopen an item.
UserSetStatus ==
  /\ CanEdit
  /\ \E id \in TaskIds(db), s \in {StatusOpen, StatusCanceled, StatusCompleted} :
       /\ TaskRow(db, id).status # s
       /\ db' = EditTask(db, id, "status", s)
  /\ edits' = edits + 1
  /\ Edited

\* Move an item to the trash or put it back.
UserSetTrashed ==
  /\ CanEdit
  /\ \E id \in TaskIds(db) : db' = EditTask(db, id, "trashed", 1 - TaskRow(db, id).trashed)
  /\ edits' = edits + 1
  /\ Edited

\* Retitle an item; a title can be left empty.
UserSetTitle ==
  /\ CanEdit
  /\ \E id \in TaskIds(db), title \in {"", "Proj"} :
       /\ TaskRow(db, id).title # title
       /\ db' = EditTask(db, id, "title", title)
  /\ edits' = edits + 1
  /\ Edited

\* Move an item into an area or out of it.
UserSetArea ==
  /\ CanEdit
  /\ \E id \in TaskIds(db), area \in {""} \cup {db.areas[i].uuid : i \in DOMAIN db.areas} :
       /\ TaskRow(db, id).area # area
       /\ db' = EditTask(db, id, "area", area)
  /\ edits' = edits + 1
  /\ Edited

\* Move a to-do into a project or out of it.
UserSetProject ==
  /\ CanEdit
  /\ \E id \in TaskIds(db),
        project \in {""} \cup {r \in TaskIds(db) : TaskRow(db, r).type = TypeProject} :
       /\ TaskRow(db, id).type = TypeTask
       /\ TaskRow(db, id).project # project
       /\ db' = EditTask(db, id, "project", project)
  /\ edits' = edits + 1
  /\ Edited

\* Tag an item or remove a tag from it.
UserToggleTag ==
  /\ CanEdit
  /\ \E id \in TaskIds(db), i \in DOMAIN db.tags :
       LET pair == [tasks |-> id, tags |-> db.tags[i].uuid]
       IN db' = [db EXCEPT !.taskTags =
                   IF \E k \in DOMAIN @ : @[k] = pair
                     THEN SelectSeq(@, LAMBDA row : row # pair)
                     ELSE Append(@, pair)]
  /\ edits' = edits + 1
  /\ Edited

\* Add a heading to the project.
UserAddHeading ==
  /\ CanEdit
  /\ "H1" \notin TaskIds(db)
  /\ db' = [db EXCEPT !.tasks = Append(@, TaskRecord("H1", "Later", TypeHeading, "", "P1", 2))]
  /\ edits' = edits + 1
  /\ Edited

\* Schedule a to-do for a day, or clear its start date.
UserSchedule ==
  /\ CanEdit
  /\ \E id \in TaskIds(db),
        start \in {SqlNull, SqlNum(PackDate(Days[2])), SqlNum(PackDate(Days[3]))} :
       /\ TaskRow(db, id).type = TypeTask
       /\ TaskRow(db, id).startDate # start
       /\ db' = EditTask(db, id, "startDate", start)
  /\ edits' = edits + 1
  /\ Edited

\* Rename an area.
UserRenameArea ==
  /\ CanEdit
  /\ \E i \in DOMAIN db.areas, title \in {"Work", "Home"} :
       /\ db.areas[i].title # title
       /\ db' = [db EXCEPT !.areas[i].title = title]
  /\ edits' = edits + 1
  /\ Edited

NextSummary ==
  \/ Summary
  \/ SummaryReturn
  \/ UserSetStatus
  \/ UserSetTrashed
  \/ UserSetTitle
  \/ UserSetArea
  \/ UserSetProject
  \/ UserToggleTag
  \/ UserAddHeading
  \/ UserSchedule
  \/ UserRenameArea

(***************************************************************************)
(* tools/things-summary.ts: the four queries, one at a time, while the     *)
(* host application changes its database                                   *)
(***************************************************************************)
\* The requests of this part: no filter, a tag filter, includeCompleted,
\* includeInactive.
RaceArgs ==
  {a \in SummaryArgs :
     /\ a.areas = Undef /\ a.projects = Undef /\ a.dateRange = Undef
     /\ a.includeTrash = Undef
     /\ a.tags \in {Undef, Arr(<<"a">>)}}

AreaIds(d) == {d.areas[i].uuid : i \in DOMAIN d.areas}
TagIds(d) == {d.tags[i].uuid : i \in DOMAIN d.tags}

\* The database after one change made in the host application: an area, a
\* tag or a to-do is added or deleted (a deleted row takes its references
\* with it), an item is moved to an area, completed, tagged or untagged.
HostMutations(d) ==
  ({[d EXCEPT !.areas = Append(@, [uuid |-> "A2", title |-> "Home", visible |-> 1])] :
       x \in {1} \ {1 : i \in {k \in DOMAIN d.areas : d.areas[k].uuid = "A2"}}}
   \cup {[d EXCEPT !.areas = SelectSeq(@, LAMBDA r : r.uuid # a),
                   !.tasks = [i \in DOMAIN @ |->
                                IF @[i].area = a THEN [@[i] EXCEPT !.area = ""] ELSE @[i]]] :
           a \in AreaIds(d)}
   \cup {[d EXCEPT !.tags = Append(@, [uuid |-> "G3", title |-> "c", shortcut |-> ""])] :
           x \in {1} \ {1 : i \in {k \in DOMAIN d.tags : d.tags[k].uuid = "G3"}}}
   \cup {[d EXCEPT !.tags = SelectSeq(@, LAMBDA r : r.uuid # g),
                   !.taskTags = SelectSeq(@, LAMBDA r : r.tags # g)] :
           g \in TagIds(d)}
   \cup {[d EXCEPT !.tasks = SelectSeq(@, LAMBDA r : r.uuid # id /\ r.project # id),
                   !.taskTags = SelectSeq(@, LAMBDA r :
                                  r.tasks # id /\ ~(\E k \in DOMAIN d.tasks :
                                     d.tasks[k].uuid = r.tasks /\ d.tasks[k].project = id))] :
           id \in TaskIds(d)}
   \cup {EditTask(d, id, "area", a) : id \in TaskIds(d), a \in AreaIds(d)}
   \cup {EditTask(d, id, "status", StatusCompleted) : id \in TaskIds(d)}
   \cup {[d EXCEPT !.taskTags =
            IF \E k \in DOMAIN @ : @[k] = [tasks |-> id, tags |-> g]
              THEN SelectSeq(@, LAMBDA row : row # [tasks |-> id, tags |-> g])
              ELSE Append(@, [tasks |-> id, tags |-> g])] :
           id \in TaskIds(d), g \in TagIds(d)})
  \ {d}

\* The host application writes a change, at any moment before or between the
\* queries of a request.
HostMutates ==
  /\ spc # "done"
  /\ edits < MaxEdits
  /\ fs.dbFile
  /\ \E d \in HostMutations(db) : db' = d
  /\ edits' = edits + 1
  /\ Edited

\* The handler up to its first query: the platform test, findThingsDatabase
\* and SELECT ... FROM TMArea.
QueryAreas ==
  /\ spc = "idle"
  /\ epc = "idle"
  /\ \E a \in RaceArgs :
       /\ sargs' = a
       /\ sparams' = ParseSummaryArgs(a)
  /\ failedQueries' = {}
  /\ filteredTasks' = <<>>
  /\ IF platform # "darwin"
       THEN /\ loaded' = NoRows
            /\ summary' = Threw("Things database access is only available on macOS")
            /\ spc' = "done"
     ELSE IF ~FindThingsDatabaseSummary(fs).ok
       THEN /\ loaded' = NoRows
            /\ summary' = Threw(FindThingsDatabaseSummary(fs).text)
            /\ spc' = "done"
     ELSE /\ loaded' = [NoRows EXCEPT !.areas = executeSqlQuery(SelectAreas(db), FALSE)]
          /\ summary' = Running
          /\ spc' = "tags"
  /\ UNCHANGED <<db, edits, wvars, vvars, fvars, evars, cvars>>

\* SELECT ... FROM TMTag
QueryTags ==
  /\ spc = "tags"
  /\ loaded' = [loaded EXCEPT !.tags = executeSqlQuery(SelectTags(db), FALSE)]
  /\ spc' = "tasks"
  /\ UNCHANGED <<db, edits, sargs, sparams, failedQueries, filteredTasks, summary,
                 wvars, vvars, fvars, evars, cvars>>

\* SELECT ... FROM TMTask WHERE statusFilter
QueryTasks ==
  /\ spc = "tasks"
  /\ loaded' = [loaded EXCEPT !.tasks = executeSqlQuery(SelectTasks(db, sparams), FALSE)]
  /\ spc' = "taskTags"
  /\ UNCHANGED <<db, edits, sargs, sparams, failedQueries, filteredTasks, summary,
                 wvars, vvars, fvars, evars, cvars>>

\* SELECT tasks, tags FROM TMTaskTag, and the rest of getThingsSummary, which
\* reads the database no more.
QueryTaskTags ==
  /\ spc = "taskTags"
  /\ loaded' = [loaded EXCEPT !.taskTags = executeSqlQuery(SelectTaskTags(db), FALSE)]
  /\ filteredTasks' = FilteredTasks(AllTasks(loaded'), sparams)
  /\ \E now \in Clock : summary' = Returned(getThingsSummary(sparams, loaded', now))
  /\ spc' = "done"
  /\ UNCHANGED <<db, edits, sargs, sparams, failedQueries, wvars, vvars, fvars, evars, cvars>>

NextRace ==
  \/ HostMutates
  \/ QueryAreas
  \/ QueryTags
  \/ QueryTasks
  \/ QueryTaskTags
  \/ SummaryReturn

(***************************************************************************)
(* tools/export-json.ts: exportThingsData and the export_json handler      *)
(***************************************************************************)
\* A status filter without the case of both flags: includeCompleted alone decides.
ExportStatusFilterOneFlag(p, r) ==
  IF Truthy(p.includeCompleted) THEN r.trashed = 0
  ELSE IF Truthy(p.includeTrash) THEN r.status = 0
  ELSE r.status = 0 /\ r.trashed = 0

\* Build status filters: '1=1', 'trashed = 0', 'status = 0' or
\* 'status = 0 AND trashed = 0'.
ExportStatusFilter(p, r) ==
  IF Truthy(p.includeCompleted) /\ Truthy(p.includeTrash) THEN TRUE
  ELSE IF Truthy(p.includeCompleted) THEN r.trashed = 0
  ELSE IF Truthy(p.includeTrash) THEN r.status = 0
  ELSE r.status = 0 /\ r.trashed = 0

\* index1 of a row is its position in its table, so ORDER BY index1 leaves
\* the rows of TMArea and TMTag in table order.
\* SELECT uuid, title, visible, index1 FROM TMArea ORDER BY index1
ExportSelectAreas(d) ==
  [i \in DOMAIN d.areas |->
     <<d.areas[i].uuid, d.areas[i].title, ToString(d.areas[i].visible), ToString(i - 1)>>]

\* SELECT uuid, title, shortcut, index1 FROM TMTag ORDER BY index1
ExportSelectTags(d) ==
  [i \in DOMAIN d.tags |->
     <<d.tags[i].uuid, d.tags[i].title, d.tags[i].shortcut, ToString(i - 1)>>]

\* The sort key of a nullable numeric column: NULL sorts first.
SortKey(cell) == IF cell = SqlNull THEN -1 ELSE cell.num

\* ORDER BY creationDate: ascending, rows with equal dates in table order.
OrderByCreationDate(rows) ==
  LET Before(i, j) ==
        \/ SortKey(rows[i].creationDate) < SortKey(rows[j].creationDate)
        \/ SortKey(rows[i].creationDate) = SortKey(rows[j].creationDate) /\ i < j
      Rank(i) == Cardinality({j \in DOMAIN rows : Before(j, i)}) + 1
  IN [r \in DOMAIN rows |-> rows[CHOOSE i \in DOMAIN rows : Rank(i) = r]]

\* The TMTask rows with their index1.
IndexedTasks(d) == [i \in DOMAIN d.tasks |-> d.tasks[i] @@ [index1 |-> i - 1]]

\* The columns of the full task query; the model's database keeps no
\* modification or completion date: the first prints as the creation date,
\* the second as NULL.
ExportTaskColumns(r) ==
  <<r.uuid, r.title, r.notes, ToString(r.type), ToString(r.status), ToString(r.trashed),
    SqlText(r.creationDate), SqlText(r.creationDate), SqlText(r.startDate),
    SqlText(r.deadline), "", r.area, r.project,
    ToString(r.checklistItemsCount), ToString(r.openChecklistItemsCount),
    ToString(r.index1)>>

\* The columns of the minimal task query.
ExportMinimalColumns(r) ==
  <<r.uuid, r.title, ToString(r.type), ToString(r.status), ToString(r.trashed),
    r.area, r.project>>

\* SELECT ... FROM TMTask WHERE ${statusFilter} ORDER BY creationDate
ExportSelectTasks(d, p) ==
  LET kept == OrderByCreationDate(
                SelectSeq(IndexedTasks(d), LAMBDA r : ExportStatusFilter(p, r)))
  IN [i \in DOMAIN kept |->
        IF Truthy(p.minimal) THEN ExportMinimalColumns(kept[i])
        ELSE ExportTaskColumns(kept[i])]

\* SELECT uuid, title, status, creationDate, task FROM TMChecklistItem
\* WHERE task IN (SELECT uuid FROM TMTask WHERE ${statusFilter}) ORDER BY creationDate
ExportSelectChecklist(d, p) ==
  LET kept == OrderByCreationDate(
                SelectSeq(d.checklist, LAMBDA item :
                  \E i \in DOMAIN d.tasks :
                    d.tasks[i].uuid = item.task /\ ExportStatusFilter(p, d.tasks[i])))
  IN [i \in DOMAIN kept |->
        <<kept[i].uuid, kept[i].title, ToString(kept[i].status),
          SqlText(kept[i].creationDate), kept[i].task>>]

\* row[k] || null
OrNull(text) == IF text # "" THEN Str(text) ELSE Null

ExportArea(row, p) ==
  IF Truthy(p.minimal) THEN Obj([id |-> Str(row[1]), title |-> OrNull(row[2])])
  ELSE Obj([id |-> Str(row[1]), title |-> OrNull(row[2]),
            visible |-> Bool(row[3] = "1"), sort_order |-> Num(ParseIntOr0(row[4]))])

ExportTag(row, p) ==
  IF Truthy(p.minimal) THEN Obj([id |-> Str(row[1]), title |-> OrNull(row[2])])
  ELSE Obj([id |-> Str(row[1]), title |-> OrNull(row[2]),
            shortcut |-> OrNull(row[3]), sort_order |-> Num(ParseIntOr0(row[4]))])

ExportTask(row, p) ==
  IF Truthy(p.minimal)
    THEN Obj([id |-> Str(row[1]), title |-> OrNull(row[2]),
              type |-> Num(ParseIntOr0(row[3])), status |-> Num(ParseIntOr0(row[4])),
              trashed |-> Bool(row[5] = "1"),
              area_id |-> OrNull(row[6]), project_id |-> OrNull(row[7])])
    ELSE Obj([id |-> Str(row[1]), title |-> OrNull(row[2]), notes |-> OrNull(row[3]),
              type |-> Num(ParseIntOr0(row[4])), status |-> Num(ParseIntOr0(row[5])),
              trashed |-> Bool(row[6] = "1"),
              creation_date |-> formatDateExport(Str(row[7])),
              modification_date |-> formatDateExport(Str(row[8])),
              start_date |-> formatDateExport(Str(row[9])),
              deadline |-> formatDateExport(Str(row[10])),
              completion_date |-> formatDateExport(Str(row[11])),
              area_id |-> OrNull(row[12]), project_id |-> OrNull(row[13]),
              checklist_items_total |-> Num(ParseIntOr0(row[14])),
              checklist_items_open |-> Num(ParseIntOr0(row[15])),
              sort_order |-> Num(ParseIntOr0(row[16]))])

ExportChecklistItem(row) ==
  Obj([id |-> Str(row[1]), title |-> OrNull(row[2]), status |-> Num(ParseIntOr0(row[3])),
       creation_date |-> formatDateExport(Str(row[4])), task_id |-> Str(row[5])])

\* array.filter(predicate).length
CountOf(a, Test(_)) == Num(Len(SelectSeq(a, Test)))

\* exportThingsData after findThingsDatabase: data holds the rows of the
\* queries, path the database path, now the day new Date() falls on.
exportThingsData(p, data, path, now) ==
  LET areas == [i \in DOMAIN data.areas |-> ExportArea(data.areas[i], p)]
      tags == [i \in DOMAIN data.tags |-> ExportTag(data.tags[i], p)]
      tasks == [i \in DOMAIN data.tasks |-> ExportTask(data.tasks[i], p)]
      task_tags == [i \in DOMAIN data.taskTags |->
                      Obj([task_id |-> Str(data.taskTags[i][1]),
                           tag_id |-> Str(data.taskTags[i][2])])]
      checklist_items == [i \in DOMAIN data.checklist |-> ExportChecklistItem(data.checklist[i])]
      counts == [total_areas |-> Num(Len(areas)),
                 total_tags |-> Num(Len(tags)),
                 total_items |-> Num(Len(tasks)),
                 total_tasks |-> CountOf(tasks, LAMBDA t : t.o.type = Num(0)),
                 total_projects |-> CountOf(tasks, LAMBDA t : t.o.type = Num(1)),
                 total_headings |-> CountOf(tasks, LAMBDA t : t.o.type = Num(2)),
                 open_items |-> CountOf(tasks, LAMBDA t : t.o.status = Num(0) /\ ~Truthy(t.o.trashed)),
                 completed_items |-> CountOf(tasks, LAMBDA t : t.o.status = Num(3)),
                 trashed_items |-> CountOf(tasks, LAMBDA t : Truthy(t.o.trashed))]
  IN Obj([export_info |->
            Obj([exported_at |-> Str(IsoInstant(now)),
                 source |-> Str("Things MCP Server"),
                 database_path |-> Str(path),
                 filters |-> Obj([include_completed |-> p.includeCompleted,
                                  include_trash |-> p.includeTrash,
                                  minimal |-> p.minimal])]),
          areas |-> Arr(areas),
          tags |-> Arr(tags),
          tasks |-> Arr(tasks),
          task_tags |-> Arr(task_tags)]
         @@ Property(~Truthy(p.minimal), "checklist_items", Arr(checklist_items))
         @@ ("summary" :>
               Obj(counts
                   @@ Property(~Truthy(p.minimal), "total_checklist_items",
                               Num(Len(checklist_items)))
                   @@ Property(~Truthy(p.minimal), "total_task_tag_relationships",
                               Num(Len(task_tags))))))

\* The parameters after zod parsing; prettify changes only the white space
\* of the JSON text and is left at its default.
DefaultExportParams ==
  [includeCompleted |-> Bool(FALSE), includeTrash |-> Bool(FALSE),
   minimal |-> Bool(FALSE), prettify |-> Bool(TRUE)]

ExportParams ==
  [includeCompleted : Booleans, includeTrash : Booleans, minimal : Booleans,
   prettify : {Bool(TRUE)}]

ExportQueryNames == QueryNames \cup {"checklist"}

ExportFailures == {broken \in SUBSET ExportQueryNames : Cardinality(broken) <= MaxFailures}

\* The queries of one export; each prints its rows or fails.  The checklist
\* query runs only when minimal is not set.
ExportRows(d, p, broken) ==
  [areas |-> executeSqlQuery(ExportSelectAreas(d), "areas" \in broken),
   tags |-> executeSqlQuery(ExportSelectTags(d), "tags" \in broken),
   tasks |-> executeSqlQuery(ExportSelectTasks(d, p), "tasks" \in broken),
   taskTags |-> executeSqlQuery(SelectTaskTags(d), "taskTags" \in broken),
   checklist |-> executeSqlQuery(ExportSelectChecklist(d, p), "checklist" \in broken)]

ExportIdle ==
  /\ epc = "idle"
  /\ eparams = DefaultExportParams
  /\ exported = Running

ExportAtRest == zone = 0 /\ ExportIdle

\* The export_json handler: it runs to its return without yielding.  The
\* response carries the JSON text of the tree.
Export ==
  /\ epc = "idle"
  /\ spc = "idle"
  /\ \E p \in ExportParams :
       /\ eparams' = p
       /\ IF platform # "darwin"
            THEN /\ failedQueries' = {}
                 /\ exported' = Threw("Things database access is only available on macOS")
          ELSE IF ~FindThingsDatabase(fs).ok
            THEN /\ failedQueries' = {}
                 /\ exported' = Threw(FindThingsDatabase(fs).text)
          ELSE \E broken \in ExportFailures, now \in Clock :
                 /\ ~(Truthy(p.minimal) /\ "checklist" \in broken)
                 /\ failedQueries' = broken
                 /\ exported' = Returned(exportThingsData(p, ExportRows(db, p, broken),
                                                          FindThingsDatabase(fs).text, now))
  /\ epc' = "done"
  /\ UNCHANGED <<zone, db, edits, spc, sargs, sparams, loaded, filteredTasks, summary,
                 wvars, vvars, fvars, cvars>>

\* The response has been sent.
ExportReturn ==
  /\ epc = "done"
  /\ epc' = "idle"
  /\ eparams' = DefaultExportParams
  /\ failedQueries' = {}
  /\ exported' = Running
  /\ UNCHANGED <<zone, db, edits, spc, sargs, sparams, loaded, filteredTasks, summary,
                 wvars, vvars, fvars, cvars>>

\* The two read tools of the server and the user's changes between requests.
NextExport ==
  \/ Export
  \/ ExportReturn
  \/ NextSummary

(***************************************************************************)
(* utils/applescript.ts: the parsers of the AppleScript output             *)
(***************************************************************************)
\* A Date object, named by the instant it holds.
DateValue(instant) == [t |-> "date", instant |-> instant]

\* new Date(): the instant of the parse.
ParseInstant == DateValue("now")

\* The date texts the parser reads, each with the instant it denotes: the
\* form new Date() parses at once and the English form of AppleScript,
\* which parses after the day name and 'at' are removed.
AppleScriptDates ==
  [text \in {"2025-06-06T09:40:34", "Friday, June 6, 2025 at 9:40:34 AM"} |->
     "2025-06-06T09:40:34"]

\* parseAppleScriptDate: undefined for an empty text, for 'missing value' and
\* for a text no form matches.
parseAppleScriptDate(dateString) ==
  IF dateString \in {"", "missing value"} THEN Undef
  ELSE IF dateString \in DOMAIN AppleScriptDates
    THEN DateValue(AppleScriptDates[dateString])
  ELSE Undef

\* The comma separated texts of the model and their parts.
CommaTexts == ("a" :> <<"a">>) @@ ("a,b" :> <<"a", "b">>) @@ ("a,,b" :> <<"a", "", "b">>)

\* tags ? tags.split(',').filter(Boolean) : []
SplitTags(tags) ==
  IF tags = "" THEN Arr(<<>>)
  ELSE Arr(SelectSeq(CommaTexts[tags], LAMBDA part : part # ""))

\* text || undefined
OrUndef(text) == IF text # "" THEN Str(text) ELSE Undef

\* date || new Date()
OrParseInstant(date) == IF date = Undef THEN ParseInstant ELSE date

\* output.split('\n').filter(line => line.trim() !== ''): the output is held
\* as its lines, each line as its parts between '|'; a blank line has one
\* empty part.
OutputEntries(output) == SelectSeq(output, LAMBDA parts : parts # <<"">>)

\* The ThingsTodo of an entry of at least 17 parts.
TodoOf(parts) ==
  Obj([id |-> Str(parts[1]),
       name |-> Str(parts[2]),
       notes |-> OrUndef(parts[3]),
       project |-> OrUndef(parts[5]),
       projectId |-> OrUndef(parts[6]),
       area |-> OrUndef(parts[7]),
       areaId |-> OrUndef(parts[8]),
       tags |-> SplitTags(parts[15]),
       completionDate |-> parseAppleScriptDate(parts[12]),
       dueDate |-> parseAppleScriptDate(parts[9]),
       activationDate |-> parseAppleScriptDate(parts[11]),
       status |-> Str(parts[4]),
       creationDate |-> OrParseInstant(parseAppleScriptDate(parts[16])),
       modificationDate |-> OrParseInstant(parseAppleScriptDate(parts[17])),
       type |-> Str("to-do")])

\* parseAppleScriptTodoList: an entry of fewer than 17 parts is skipped.
parseAppleScriptTodoList(output) ==
  LET kept == SelectSeq(OutputEntries(output), LAMBDA parts : Len(parts) >= 17)
  IN Arr([i \in DOMAIN kept |-> TodoOf(kept[i])])

\* The ThingsProject of an entry of at least 15 parts.
ProjectOf(parts) ==
  Obj([id |-> Str(parts[1]),
       name |-> Str(parts[2]),
       notes |-> OrUndef(parts[3]),
       area |-> OrUndef(parts[5]),
       areaId |-> OrUndef(parts[6]),
       tags |-> SplitTags(parts[13]),
       completionDate |-> parseAppleScriptDate(parts[10]),
       dueDate |-> parseAppleScriptDate(parts[7]),
       activationDate |-> parseAppleScriptDate(parts[9]),
       status |-> Str(parts[4]),
       creationDate |-> OrParseInstant(parseAppleScriptDate(parts[14])),
       modificationDate |-> OrParseInstant(parseAppleScriptDate(parts[15])),
       type |-> Str("project")])

\* parseAppleScriptProjectList: an entry of fewer than 15 parts throws inside
\* entries.map, and the catch around the map returns [].
parseAppleScriptProjectList(output) ==
  LET entries == OutputEntries(output)
  IN IF \E i \in DOMAIN entries : Len(entries[i]) < 15 THEN Arr(<<>>)
     ELSE Arr([i \in DOMAIN entries |-> ProjectOf(entries[i])])

\* A row of tasksData read by column: a column the row lacks reads as
\* undefined, which every use in getThingsSummary treats as the empty text.
PadRow(row) == [k \in 1..11 |-> IF k <= Len(row) THEN row[k] ELSE ""]

(***************************************************************************)
(* The helper functions, called on their own with arguments of any shape.  *)
(***************************************************************************)
\* The longest array of an argument tree.
MaxLen == 2

Leaves == {Undef, Null, Str(""), Str("x"), Num(0), Num(1)}

\* The arrays of at most n elements, and the objects with keys among the given.
ArraysOf(values, n) == {Arr(a) : a \in UNION {[1..k -> values] : k \in 0..n}}
ObjectsOf(keys, values) == {Obj(o) : o \in UNION {[K -> values] : K \in SUBSET keys}}

\* Trees of depth one and two.
Trees1 ==
  Leaves \cup ArraysOf({Undef, Null, Str(""), Str("x")}, MaxLen)
         \cup ObjectsOf({"total", "open"}, Leaves)
Trees2 ==
  Trees1 \cup ArraysOf(Trees1, 1) \cup ObjectsOf({"checklistItems", "items"}, Trees1)

Call(fn, args) == [fn |-> fn, args |-> args]
NoCall == Call("none", <<>>)

CompressCalls == {Call("compressObject", <<x>>) : x \in Trees2}

\* formatDate on the packed form of every calendar date of PackedYears.
PackedDateCalls ==
  {Call("formatDate", <<Str(ToString(PackDate(ymd))), TRUE>>) : ymd \in ValidTriples}

\* Raw column values: none, NULL, blank, zero, text that is no number, and a
\* stored creationDate.
RawInputs ==
  {Undef, Null, Str(""), Str("NULL"), Str(" "), Str("0"), Str("abc"),
   Str(ToString(CreationSeconds[1]))}

RawDateCalls ==
  {Call("formatDate", <<raw, isDateField>>) : raw \in RawInputs, isDateField \in BOOLEAN}
    \cup {Call("formatDateExport", <<raw>>) : raw \in RawInputs \ {Str(ToString(CreationSeconds[1]))}}

\* The most entries 'Library/Group Containers' lists, and the most a container lists.
MaxEntries == 2
MaxContents == 1

SeqsOf(values, n) == UNION {[1..k -> values] : k \in 0..n}

\* What a container lists: entries with or without the 'ThingsData-' prefix,
\* with or without the database file under them.
ContainerContents == SeqsOf([prefixed : BOOLEAN, db : BOOLEAN], MaxContents)

\* What 'Library/Group Containers' lists: directories and files, named after
\* the bundle identifier or not.  Only a directory lists anything, and what
\* an entry of another name lists is never read.
GroupEntries ==
  {entry \in [named : BOOLEAN, dir : BOOLEAN, contents : ContainerContents] :
     (~entry.named \/ ~entry.dir) => entry.contents = << >>}

Homes ==
  {[exists |-> FALSE, entries |-> << >>]}
    \cup {[exists |-> TRUE, entries |-> entries] : entries \in SeqsOf(GroupEntries, MaxEntries)}

Wheres == {"", " in ~/Library/Group Containers"}

LocateCalls == {Call("findThingsDatabase", <<home, where>>) : home \in Homes, where \in Wheres}

\* The keys of a params object, in the order they were set.
ParamKeys == <<"title", "notes", "tags">>

\* What a key of params holds; Missing: params has no such key.
Missing == [t |-> "missing"]
ParamValues ==
  {Missing, Undef, Null, Str(""), Str("x"), Arr(<< >>), Arr(<<"a", "b">>),
   Bool(FALSE), Num(0)}

\* Object.entries(params)
Entries(held) ==
  LET present == SelectSeq([i \in DOMAIN ParamKeys |-> i], LAMBDA i : held[i] # Missing)
  IN [n \in DOMAIN present |-> <<ParamKeys[present[n]], held[present[n]]>>]

BuildCalls ==
  {Call("buildThingsUrl", <<command, Entries(held)>>) :
     command \in {"add", "update"}, held \in [DOMAIN ParamKeys -> ParamValues]}

\* A date of a task or a bound of a range: none, or the ISO text of a day.
OptionalDates == {Undef} \cup {Str(IsoDate(Days[i])) : i \in DOMAIN Days}

\* A task as allTasks holds it, with each of its three dates present or not.
DatedTasks ==
  {Obj([id |-> Str("T1"), title |-> Str("Call"), type |-> Str(kind)]
         @@ Property(created # Undef, "creationDate", created)
         @@ Property(start # Undef, "startDate", start)
         @@ Property(due # Undef, "deadline", due)) :
     kind \in {"task", "project"}, created \in OptionalDates,
     start \in OptionalDates, due \in OptionalDates}

\* params.dateRange: not given, or an object with each bound given or not.
AnyDateRanges ==
  {Undef} \cup {Obj(Property(from # Undef, "from", from) @@ Property(to # Undef, "to", to)) :
                  from \in OptionalDates, to \in OptionalDates}

DateRangeCalls ==
  {Call("dateRangeFilter", << <<task>>, [DefaultParams EXCEPT !.dateRange = range] >>) :
     task \in DatedTasks, range \in AnyDateRanges}

\* The lines of an AppleScript listing.
MaxLines == 2

ListedIds == {"T1", "T2"}

\* The date fields of a line: empty, well-formed, or no date at all.
DateTexts == {"", "2025-06-06T09:40:34", "Friday, June 6, 2025 at 9:40:34 AM", "n/a"}

\* A to-do line of 17 parts with the given due date.
TodoLine(id, due) ==
  <<id, "Call", "", "open", "", "", "", "", due, "", "", "", "", "Inbox", "a,,b",
    "2025-06-06T09:40:34", "missing value">>

\* A project line of 15 parts with the given due date.
ProjectLine(id, due) ==
  <<id, "Proj", "", "open", "Work", "A1", due, "", "", "", "", "Projects", "a,b",
    "2025-06-06T09:40:34", "missing value">>

\* A line cut short (a listing interrupted, a field that was not written).
CutLine(id) == <<id, "Call", "">>

BlankLine == <<"">>

TodoOutputs ==
  SeqsOf({TodoLine(id, due) : id \in ListedIds, due \in DateTexts}
           \cup {CutLine(id) : id \in ListedIds} \cup {BlankLine}, MaxLines)

ProjectOutputs ==
  SeqsOf({ProjectLine(id, due) : id \in ListedIds, due \in DateTexts}
           \cup {CutLine(id) : id \in ListedIds} \cup {BlankLine}, MaxLines)

ParseCalls ==
  {Call("parseAppleScriptTodoList", <<output>>) : output \in TodoOutputs}
    \cup {Call("parseAppleScriptProjectList", <<output>>) : output \in ProjectOutputs}

\* The rows of tasksData: the rows of the database, a row with a creation
\* date that is no number, a row with a start date that is no number, and a
\* row cut after its title.
RowsOfSeed == {TaskColumns(SeedDb.tasks[i]) : i \in DOMAIN SeedDb.tasks}

OddRows ==
  {[TaskColumns(SeedDb.tasks[3]) EXCEPT ![1] = "T3", ![5] = "n/a"],
   [TaskColumns(SeedDb.tasks[3]) EXCEPT ![1] = "T4", ![6] = "n/a"],
   <<"T5", "Cut">>}

TaskRowCalls ==
  {Call("getThingsSummary",
        <<DefaultParams,
          [areas |-> SelectAreas(SeedDb), tags |-> SelectTags(SeedDb),
           tasks |-> rows, taskTags |-> SelectTaskTags(SeedDb)]>>) :
     rows \in SeqsOf(RowsOfSeed \cup OddRows, MaxLines)}

FunctionCalls ==
  CompressCalls \cup PackedDateCalls \cup RawDateCalls \cup LocateCalls \cup BuildCalls
    \cup DateRangeCalls \cup ParseCalls \cup TaskRowCalls

FunctionsAtRest == call = NoCall /\ result = Running

\* compressObject(obj)
ApplyCompress ==
  /\ call.fn = "compressObject"
  /\ result = Running
  /\ result' = Returned(compressObject(call.args[1]))
  /\ UNCHANGED <<call, wvars, vvars, svars, evars, cvars>>

\* formatDate(timestamp, isDateField) of the summary tool
ApplyFormatDate ==
  /\ call.fn = "formatDate"
  /\ result = Running
  /\ result' = Returned(Str(formatDateOf(call.args[1], call.args[2])))
  /\ UNCHANGED <<call, wvars, vvars, svars, evars, cvars>>

\* formatDate(timestamp) of the export tool
ApplyFormatDateExport ==
  /\ call.fn = "formatDateExport"
  /\ result = Running
  /\ result' = Returned(formatDateExport(call.args[1]))
  /\ UNCHANGED <<call, wvars, vvars, svars, evars, cvars>>

\* findThingsDatabase() of utils/verification.ts (where = '') and of the
\* summary tool; a failure is thrown.
ApplyFindThingsDatabase ==
  /\ call.fn = "findThingsDatabase"
  /\ result = Running
  /\ LET found == findThingsDatabase(call.args[1], call.args[2])
     IN result' = IF found.ok THEN Returned(Str(found.text)) ELSE Threw(found.text)
  /\ UNCHANGED <<call, wvars, vvars, svars, evars, cvars>>

\* buildThingsUrl(command, params)
ApplyBuildThingsUrl ==
  /\ call.fn = "buildThingsUrl"
  /\ result = Running
  /\ result' = Returned(BuildThingsUrl(call.args[1], call.args[2]))
  /\ UNCHANGED <<call, wvars, vvars, svars, evars, cvars>>

\* The date range step of getThingsSummary on a list of tasks.
ApplyDateRangeFilter ==
  /\ call.fn = "dateRangeFilter"
  /\ result = Running
  /\ result' = Returned(Arr(DateRangeFilter(call.args[1], call.args[2])))
  /\ UNCHANGED <<call, wvars, vvars, svars, evars, cvars>>

ApplyParseTodoList ==
  /\ call.fn = "parseAppleScriptTodoList"
  /\ result = Running
  /\ result' = Returned(parseAppleScriptTodoList(call.args[1]))
  /\ UNCHANGED <<call, wvars, vvars, svars, evars, cvars>>

ApplyParseProjectList ==
  /\ call.fn = "parseAppleScriptProjectList"
  /\ result = Running
  /\ result' = Returned(parseAppleScriptProjectList(call.args[1]))
  /\ UNCHANGED <<call, wvars, vvars, svars, evars, cvars>>

\* getThingsSummary on the rows the four queries printed.
ApplyGetThingsSummary ==
  /\ call.fn = "getThingsSummary"
  /\ result = Running
  /\ \E now \in Clock :
       result' = Returned(getThingsSummary(
                   call.args[1],
                   [call.args[2] EXCEPT !.tasks = [i \in DOMAIN @ |-> PadRow(@[i])]],
                   now))
  /\ UNCHANGED <<call, wvars, vvars, svars, evars, cvars>>

NextFunctions ==
  \/ ApplyCompress
  \/ ApplyParseTodoList
  \/ ApplyParseProjectList
  \/ ApplyGetThingsSummary
  \/ ApplyDateRangeFilter
  \/ ApplyBuildThingsUrl
  \/ ApplyFindThingsDatabase
  \/ ApplyFormatDate
  \/ ApplyFormatDateExport

VerifyIdle ==
  /\ store = Absent
  /\ hostQueue = <<>>
  /\ vfn = "none"
  /\ vargs = NoArgs
  /\ vpc = "idle"
  /\ timer = 0
  /\ waited = 0
  /\ dbPath = NoPath
  /\ sqlResult = <<>>
  /\ vresult = Running
  /\ reads = 0
  /\ vIssued = 0
  /\ storeAtRead = Absent

VerifyAtRest == fs = AllStages /\ VerifyIdle

\* The write path with the verifier and the assembler at rest.
WriteInit == InitWrite /\ VerifyAtRest /\ SummaryAtRest /\ FunctionsAtRest /\ ExportAtRest /\ ConcurrentAtRest

SpecWrite == WriteInit /\ [][NextWrite]_vars

\* The caller has the result; the call's locals are gone.
VerifyFinish ==
  /\ vpc = "done"
  /\ vfn' = "none"
  /\ vargs' = NoArgs
  /\ vpc' = "idle"
  /\ timer' = 0
  /\ waited' = 0
  /\ dbPath' = NoPath
  /\ sqlResult' = <<>>
  /\ vresult' = Running
  /\ reads' = 0
  /\ vIssued' = 0
  /\ storeAtRead' = Absent
  /\ UNCHANGED <<fs, store, hostQueue, wvars, svars, fvars, evars, cvars>>

NextVerify ==
  \/ CallerDispatch
  \/ HostProcess
  \/ UserTrash
  \/ VerifyCall
  \/ Tick
  \/ VerifyLocate
  \/ VerifyQuery
  \/ VerifyReturn
  \/ VerifyFinish

\* The verifier with the write path and the assembler at rest.
VerifyInit == InitVerify /\ WriteAtRest /\ SummaryAtRest /\ FunctionsAtRest /\ ExportAtRest /\ ConcurrentAtRest

SpecVerify == VerifyInit /\ [][NextVerify]_vars

\* The assembler with the write path and the verifier at rest; the database
\* file is there or missing.
SummaryInit ==
  /\ SummaryAtRest
  /\ WriteAtRest
  /\ VerifyIdle
  /\ fs \in {AllStages, [AllStages EXCEPT !.dbFile = FALSE]}
  /\ FunctionsAtRest
  /\ ExportAtRest
  /\ ConcurrentAtRest

SpecSummary == SummaryInit /\ [][NextSummary]_vars

\* The helper functions with everything else at rest: one call, with its
\* arguments, in each behaviour.
FunctionsInit ==
  /\ call \in FunctionCalls
  /\ result = Running
  /\ WriteAtRest
  /\ VerifyAtRest
  /\ SummaryAtRest
  /\ ExportAtRest
  /\ ConcurrentAtRest

SpecFunctions == FunctionsInit /\ [][NextFunctions]_vars

\* The time zones of the host machine: Honolulu (ten hours behind UTC) and UTC.
Zones == {-10, 0}

\* The assembler on a host in either time zone.
ZonedInit ==
  /\ SummaryAtRest
  /\ WriteAtRest
  /\ VerifyIdle
  /\ fs \in {AllStages, [AllStages EXCEPT !.dbFile = FALSE]}
  /\ FunctionsAtRest
  /\ ExportIdle
  /\ zone \in Zones
  /\ ConcurrentAtRest

SpecZoned == ZonedInit /\ [][NextSummary]_vars

\* The two read tools over one database.
SpecExport == SummaryInit /\ [][NextExport]_vars

\* Two update requests for one item, and the host application.
ConcurrentInit ==
  /\ token \in Tokens
  /\ platform \in Platforms
  /\ WriteIdle
  /\ VerifyAtRest
  /\ SummaryAtRest
  /\ FunctionsAtRest
  /\ ExportAtRest
  /\ hostItem \in {[kind |-> k, title |-> "Old", status |-> StatusOpen] : k \in ItemKinds}
  /\ requests = [r \in RequestIds |-> NoRequest]
  /\ spawned = <<>>
  /\ hostInbox = <<>>
  /\ processed = <<>>

SpecConcurrent == ConcurrentInit /\ [][NextConcurrent]_vars

\* One summary request at a time, its queries interleaved with the host's writes.
SpecRace == SummaryInit /\ [][NextRace]_vars

(***************************************************************************)
(* Properties of the verifier.                                             *)
(***************************************************************************)
\* C9 as claimed: every call waits waitMs (100 ms by default), then reads the
\* record exactly once, never a second time, and dispatches nothing.
C9_WaitThenExactlyOneRead ==
  /\ vpc \in {"query", "return", "done"} =>
       waited = (IF vargs.waitMs = Undef THEN 100 ELSE vargs.waitMs.n)
  /\ reads <= 1
  /\ vpc \in {"return", "done"} => reads = 1
  /\ vIssued = 0

\* C9 as amended: every call waits waitMs (100 ms by default) before it looks
\* for the database; it then reads the record exactly once when the database
\* file is found and not at all when it is not; it never reads a second time,
\* whatever the read returns, and dispatches nothing.
C9_WaitThenAtMostOneRead ==
  /\ vpc \in {"query", "return", "done"} =>
       waited = (IF vargs.waitMs = Undef THEN 100 ELSE vargs.waitMs.n)
  /\ reads <= 1
  /\ vpc \in {"return", "done"} => (reads = 1 <=> fs.dbFile)
  /\ vIssued = 0

\* A completion is still queued at the host, the one read found no row, and
\* the call is over.
C9_Witness ==
  /\ vfn = "verifyItemCompleted"
  /\ vpc = "done"
  /\ reads = 1
  /\ sqlResult = <<>>
  /\ hostQueue = << [op |-> "complete"] >>
  /\ vargs.waitMs = Undef

\* C10: verifyItemCompleted never throws and returns a boolean; it returns
\* true only when the database was found and the one read returned the row of
\* a record that is not open: an open item, a missing record, a failed
\* findThingsDatabase and a failed query all give false.
C10_VerifyCompletedNeverThrows ==
  (vfn = "verifyItemCompleted" /\ vpc = "done") =>
    /\ ~vresult.threw
    /\ vresult.value \in {Bool(TRUE), Bool(FALSE)}
    /\ vresult.value = Bool(TRUE) =>
         /\ fs.dbFile
         /\ reads = 1
         /\ sqlResult # <<>>
         /\ storeAtRead.present
         /\ storeAtRead.status # StatusOpen

\* The database cannot be located and verifyItemCompleted has returned false.
C10_Witness ==
  /\ vfn = "verifyItemCompleted"
  /\ vpc = "done"
  /\ ~fs.container
  /\ store.present /\ store.status = StatusOpen
  /\ vresult = Returned(Bool(FALSE))

(***************************************************************************)
(* Properties of the write path.                                           *)
(***************************************************************************)
IsUrlUpdate(cmd) ==
  cmd.channel = "url" /\ cmd.command \in {"update", "update-project"}

IsJsonCommand(cmd) ==
  cmd.channel = "url" /\ cmd.command = "json"

QueryKeys(cmd) == {cmd.query[i][1] : i \in DOMAIN cmd.query}

TerminalFields == {"completed", "canceled"}

SetsTerminal(p) == \E f \in TerminalFields : p[f] # Undef

\* The operations a json command carries.
JsonOperations(cmd) ==
  LET data == CHOOSE i \in DOMAIN cmd.query : cmd.query[i][1] = "data"
  IN cmd.query[data][2].json

AttributeKeys(op) == {op.attributes[i][1] : i \in DOMAIN op.attributes}

\* The command is a JSON update operation on the item that carries every
\* terminal-state field the request sets.
CarriesTerminalChange(cmd, p) ==
  /\ IsJsonCommand(cmd)
  /\ "data" \in QueryKeys(cmd)
  /\ \E i \in DOMAIN JsonOperations(cmd) :
       LET op == JsonOperations(cmd)[i]
       IN /\ op.operation = "update"
          /\ op.id = p["id"].s
          /\ \A f \in TerminalFields : p[f] # Undef => f \in AttributeKeys(op)

ToolMap == IF tool = "update_todo" THEN UpdateTodoMap ELSE UpdateProjectMap

\* The URL keys of the non-terminal fields the request sets.
NonTerminalKeys(p) ==
  {ToolMap[i].key : i \in {j \in DOMAIN ToolMap :
       /\ ToolMap[j].param \notin TerminalFields \cup {"completionDate"}
       /\ Truthy(p[ToolMap[j].param])
       /\ MappedValue(p, ToolMap[j]) # Str("")}}

\* C1: an update request (update_todo, update_project) with an absent or empty
\* THINGS_AUTH_TOKEN fails with the authorization error and no command is
\* built or dispatched; no command is built or dispatched before the token
\* check has passed.
C1_NoTokenNoCommand ==
  tool \in UpdateTools =>
    /\ ~Truthy(token) =>
         /\ built = <<>>
         /\ dispatched = <<>>
         /\ pc = "done" => response = Failure(AuthErrorMessage)
    /\ (built # <<>> \/ dispatched # <<>>) => Truthy(authToken)

C1_Witness ==
  /\ tool \in UpdateTools
  /\ token = Str("")
  /\ SetsTerminal(params)
  /\ pc = "done"
  /\ response = Failure(AuthErrorMessage)

\* C2: an update request that sets completed or canceled never puts them in
\* the query of a URL-scheme update command, and when it succeeds a JSON
\* update operation carrying them has been dispatched.
C2_TerminalChangeViaJson ==
  (tool \in UpdateTools /\ SetsTerminal(params)) =>
    /\ \A i \in DOMAIN built :
         IsUrlUpdate(built[i]) => QueryKeys(built[i]) \cap TerminalFields = {}
    /\ (pc = "done" /\ response.ok) =>
         \E i \in DOMAIN dispatched : CarriesTerminalChange(dispatched[i], params)

\* C3: a successful update request that sets a terminal-state field and some
\* other field dispatches exactly two commands: the URL-scheme command with
\* every non-terminal field, then the JSON operation with the terminal change.
C3_TwoCommandsInOrder ==
  (/\ tool \in UpdateTools
   /\ pc = "done"
   /\ response.ok
   /\ SetsTerminal(params)
   /\ NonTerminalKeys(params) # {}) =>
    /\ Len(dispatched) = 2
    /\ IsUrlUpdate(dispatched[1])
    /\ NonTerminalKeys(params) \subseteq QueryKeys(dispatched[1])
    /\ CarriesTerminalChange(dispatched[2], params)

Assembled == spc = "done" /\ ~summary.threw

\* The elements of a section of an object of the tree (none if it is absent).
Section(v, key) ==
  IF v.t = "object" /\ key \in DOMAIN v.o
    THEN {v.o[key].a[i] : i \in DOMAIN v.o[key].a}
    ELSE {}

\* The tasks and projects listed by the tree at the top or inside an area.
ListedItems ==
  Section(summary.value, "inboxTasks") \cup Section(summary.value, "todayTasks")
    \cup Section(summary.value, "projects")
    \cup UNION {Section(area, "projects") \cup Section(area, "tasks") :
                  area \in Section(summary.value, "areas")}

\* Every task and project of the tree, the tasks inside projects included.
ResultItems == ListedItems \cup UNION {Section(item, "tasks") : item \in ListedItems}

TagNames(item) == {tag.o.name.s : tag \in Section(item, "tags")}

InInbox(id) == \E task \in Section(summary.value, "inboxTasks") : task.o.id = Str(id)

\* The loaded TMTask rows whose object is in filteredTasks.
SurvivingRows ==
  {loaded.tasks[i] : i \in {k \in DOMAIN loaded.tasks :
      \E j \in DOMAIN filteredTasks : filteredTasks[j].o.id = Str(loaded.tasks[k][1])}}

\* C5: with a tag filter naming a non-empty set S of tag names, every task
\* and project of the assembled result carries every tag of S; an item that
\* carries only some of the tags of S is not in the result.
C5_TagFilterKeepsSupersetsOnly ==
  (Assembled /\ NonEmptyArray(sparams.tags)) =>
    \A item \in ResultItems :
      {sparams.tags.a[i] : i \in DOMAIN sparams.tags.a} \subseteq TagNames(item)

\* C6: every task of the assembled result whose project identifier points to
\* an existing project row carries the back-reference project {id, name},
\* also when that project is shut out by the status predicate or by a filter.
C6_ProjectReferenceKept ==
  Assembled =>
    \A item \in ResultItems : \A id \in TaskIds(db) :
      (/\ item.o.id = Str(id)
       /\ TaskRow(db, id).project \in TaskIds(db)
       /\ TaskRow(db, TaskRow(db, id).project).type = TypeProject)
      => /\ Truthy(Get(item, "project"))
         /\ Get(item, "project").o.id = Str(TaskRow(db, id).project)

\* C7: a row that survives loading and filtering is in result.inboxTasks if
\* and only if it has kind task, no area identifier and no project identifier.
C7_InboxIffNoAreaNoProject ==
  Assembled =>
    \A row \in SurvivingRows :
      InInbox(row[1]) <=> (row[4] = "0" /\ row[8] = "" /\ row[9] = "")

\* C8: for a task T and a project P that both survive loading and filtering,
\* with T's project identifier equal to P's identifier, P is in
\* result.projects, T is in P.tasks and T is not in result.inboxTasks.
C8_TaskNestedInItsProject ==
  Assembled =>
    \A T \in SurvivingRows, P \in SurvivingRows :
      (T[4] = "0" /\ P[4] = "1" /\ T[9] = P[1]) =>
        /\ \E project \in Section(summary.value, "projects") :
             /\ project.o.id = Str(P[1])
             /\ \E task \in Section(project, "tasks") : task.o.id = Str(T[1])
        /\ ~InInbox(T[1])

(***************************************************************************)
(* Properties of the update handlers' responses.                           *)
(***************************************************************************)

\* What a verifier call (verifyItemUpdated with the requested title) would
\* observe in the database as it is now.
ExpectedStateObserved ==
  VerifyItemUpdated(FindThingsDatabase(fs),
                    VerifyRows(store, params["id"].s),
                    params["title"]).value = Bool(TRUE)

\* A response that is neither a thrown error nor the plain success message.
SoftWarning(r) == r.ok /\ r.text # SuccessText

\* C11: when an update handler has dispatched its command and the expected
\* state is not observed in the database, the response it returns is a soft
\* warning: not a failure, and not the unqualified success message.
C11_UnverifiedUpdateIsWarned ==
  (/\ pc = "done"
   /\ tool \in UpdateTools
   /\ dispatched # <<>>
   /\ ~ExpectedStateObserved)
    => SoftWarning(response)

(***************************************************************************)
(* Properties of the queries of the summary assembler.                     *)
(***************************************************************************)
\* The rows the named query prints from the database as it is now.
QueryRows(name) ==
  CASE name = "areas" -> SelectAreas(db)
    [] name = "tags" -> SelectTags(db)
    [] name = "tasks" -> SelectTasks(db, sparams)
    [] OTHER -> SelectTaskTags(db)

\* C12: a query whose sqlite3 command fails yields the empty sequence and
\* throws nothing; a summary request in which a query fails, on a database
\* that was found, still returns a tree, and the tree is the one assembled
\* from no rows of the failed query and all the rows of the other queries.
C12_FailedQueryDegrades ==
  (spc = "done" /\ platform = "darwin" /\ FindThingsDatabaseSummary(fs).ok) =>
    /\ ~summary.threw
    /\ \A q \in QueryNames : loaded[q] = IF q \in failedQueries THEN <<>> ELSE QueryRows(q)
    /\ \E now \in Clock : summary.value = getThingsSummary(sparams, loaded, now)

\* A request in which a query with rows to print failed, and whose tree
\* still lists items.
C12_Witness ==
  /\ Assembled
  /\ \E q \in failedQueries : QueryRows(q) # <<>>
  /\ ListedItems # {}

(***************************************************************************)
(* The frame of the read path.                                             *)
(***************************************************************************)
\* C13: no read request and no verifier call modifies the task store: every
\* step of the verifier (call, wait, locate, query, return) leaves the
\* record the host application holds unchanged; the store changes only when
\* the host processes a dispatched command or the user edits it.
C13_VerifierLeavesStoreUnchanged ==
  [][(<<vpc, timer>>' # <<vpc, timer>>) => store' = store]_vars

(***************************************************************************)
(* Properties of compressObject.                                           *)
(***************************************************************************)
Compressed == call.fn = "compressObject" /\ result # Running

\* C14: compressObject is idempotent: for every value x, nested objects and
\* arrays, strings, numbers, null and undefined, compressing the compressed
\* value gives the compressed value again.
C14_CompressIdempotent ==
  Compressed => compressObject(result.value) = result.value

\* A tree of depth two that compression changed.
C14_Witness ==
  /\ Compressed
  /\ result.value # call.args[1]
  /\ result.value.t = "object"
  /\ \E key \in DOMAIN result.value.o : result.value.o[key].t \in {"array", "object"}

\* An empty object, an empty array, an empty string or a checklist pair
\* {total: 0, open: 0}.
IsEmptyValue(v) ==
  \/ v = Str("")
  \/ v.t = "array" /\ Len(v.a) = 0
  \/ v.t = "object" /\ DOMAIN v.o = {}
  \/ v.t = "object" /\ DOMAIN v.o = {"total", "open"}
       /\ v.o["total"] = Num(0) /\ v.o["open"] = Num(0)

\* The field values or elements of an object or array.
Children(v) ==
  IF v.t = "array" THEN {v.a[i] : i \in DOMAIN v.a}
  ELSE IF v.t = "object" THEN {v.o[key] : key \in DOMAIN v.o}
  ELSE {}

RECURSIVE HoldsEmptyValue(_)
\* Some field value or array element, at some depth of v, is an empty value.
HoldsEmptyValue(v) ==
  \E child \in Children(v) : IsEmptyValue(child) \/ HoldsEmptyValue(child)

PackedArgument ==
  {ymd \in ValidTriples :
     call = Call("formatDate", <<Str(ToString(PackDate(ymd))), TRUE>>)}

\* C16: for every valid calendar triple (y, m, day), decoding the integer
\* that holds y in the year bits, m in the four month bits and day in the
\* five day bits gives (y, m, day) back, and formatDate prints that date;
\* the bit pattern of 2024-03-15 is printed as 2024-03-15.
C16_PackedDateRoundTrip ==
  (call.fn = "formatDate" /\ result # Running) =>
    /\ \A ymd \in PackedArgument :
         /\ DecodePacked(PackDate(ymd)) = ymd
         /\ result = Returned(Str(IsoDate(ymd)))
    /\ <<2024, 3, 15>> \in PackedArgument => result = Returned(Str("2024-03-15"))

\* The packed form of 2024-03-15 has been decoded.
C16_Witness ==
  /\ <<2024, 3, 15>> \in PackedArgument
  /\ result # Running

\* The raw inputs that hold no date: none, NULL, blank, zero, no number.
NoDateInputs == {Undef, Null, Str(""), Str("NULL"), Str(" "), Str("0"), Str("abc")}

\* C17: for every absent, zero, blank, "NULL" or non-numeric raw input, the
\* epoch decoder and the packed decoder return absent (the empty text of the
\* summary tool, the null of the export tool) and do not throw.
C17_NoDateDecodesToAbsent ==
  (/\ call.fn \in {"formatDate", "formatDateExport"}
   /\ result # Running
   /\ call.args[1] \in NoDateInputs)
    => /\ ~result.threw
       /\ result.value \in {Str(""), Null}

(***************************************************************************)
(* Properties of the database locator.                                     *)
(***************************************************************************)
Located == call.fn = "findThingsDatabase" /\ result # Running

\* The stages, on the home directory the locator was called with.
ContainerDirs(home) ==
  {i \in DOMAIN home.entries : home.entries[i].named /\ home.entries[i].dir}
DataDirs(home) ==
  {<<i, j>> \in ContainerDirs(home) \X (1..MaxContents + 1) :
     j \in DOMAIN home.entries[i].contents /\ home.entries[i].contents[j].prefixed}
RootExists(home) == home.exists
ContainerExists(home) == RootExists(home) /\ ContainerDirs(home) # {}
DataDirExists(home) == ContainerExists(home) /\ DataDirs(home) # {}
DatabaseExists(home) ==
  /\ DataDirExists(home)
  /\ \E ij \in DataDirs(home) : home.entries[ij[1]].contents[ij[2]].db

\* The message of each stage, for the tool that was called.
StageMessage(stage, where) == findThingsDatabase(HomeOf(
  [groupContainers |-> stage > 1, container |-> stage > 2,
   dataDir |-> stage > 3, dbFile |-> FALSE]), where).text

\* C18: the locator checks the shared-container root, the container
\* directory named after the bundle identifier, the data directory with the
\* prefix and the database file, in that order; it fails at the first missing
\* stage with that stage's message, the four messages differ (a home with
\* no matching container directory gives "container not found", no I/O
\* error), and it returns a path only when every stage exists.
C18_LocatorFailsAtFirstMissingStage ==
  Located =>
    LET home == call.args[1]
        where == call.args[2]
    IN /\ ~RootExists(home) => result = Threw(StageMessage(1, where))
       /\ RootExists(home) /\ ~ContainerExists(home) => result = Threw(StageMessage(2, where))
       /\ ContainerExists(home) /\ ~DataDirExists(home) => result = Threw(StageMessage(3, where))
       /\ DataDirExists(home) /\ ~DatabaseExists(home) => result = Threw(StageMessage(4, where))
       /\ ~result.threw => DatabaseExists(home)
       /\ \A a, b \in 1..4 : a # b => StageMessage(a, where) # StageMessage(b, where)

(***************************************************************************)
(* Properties of buildThingsUrl.                                           *)
(***************************************************************************)
Built == call.fn = "buildThingsUrl" /\ result # Running

\* The keys of the query of the built command, and the value params holds
\* under a key (undefined when params has no such key).
EmittedKeys == {result.value.query[i][1] : i \in DOMAIN result.value.query}
ParamOf(key) ==
  LET at == {i \in DOMAIN call.args[2] : call.args[2][i][1] = key}
  IN IF at = {} THEN Undef ELSE call.args[2][CHOOSE i \in at : TRUE][2]

\* C19: buildThingsUrl emits a query parameter for key k if and only if
\* params[k] is neither undefined, null nor the empty string: a missing or
\* empty field is not in the built command, and the command is built (nothing
\* is thrown) also when title is missing.
C19_EmitsExactlyTheSetFields ==
  Built =>
    /\ ~result.threw
    /\ result.value.command = call.args[1]
    /\ \A i \in DOMAIN ParamKeys :
         ParamKeys[i] \in EmittedKeys <=> ParamOf(ParamKeys[i]) \notin {Undef, Null, Str("")}
    /\ Cardinality(EmittedKeys) = Len(result.value.query)

\* A command built from params without a title, with an empty notes and
\* with a false value: only the last is emitted.
C19_Witness ==
  /\ Built
  /\ ParamOf("title") = Undef
  /\ ParamOf("notes") = Str("")
  /\ ParamOf("tags") = Bool(FALSE)
  /\ EmittedKeys = {"tags"}

(***************************************************************************)
(* Properties of the date range filter.                                    *)
(***************************************************************************)
DateFiltered == call.fn = "dateRangeFilter" /\ result # Running

\* The day an ISO date text denotes, as an index of Days.
DayOf(text) == CHOOSE i \in DOMAIN Days : IsoDate(Days[i]) = text

\* The days of the dates a task holds.
PresentDays(task) ==
  {DayOf(task.o[key].s) : key \in DOMAIN task.o \cap {"creationDate", "startDate", "deadline"}}

\* The bounds of a range; a missing bound is unbounded.
LowerDay(range) == IF "from" \in DOMAIN range.o THEN DayOf(range.o["from"].s) ELSE 1
UpperDay(range) == IF "to" \in DOMAIN range.o THEN DayOf(range.o["to"].s) ELSE Len(Days)

\* C20: with a date range [from, to] a task or project is kept if and only
\* if one of its present creation, start or deadline dates d has
\* from <= d <= to, a missing bound being unbounded; an item with no date is
\* kept only when no date range was given.
C20_DateRangeKeepsItemsInRange ==
  DateFiltered =>
    LET range == call.args[2].dateRange
        tasks == call.args[1]
        kept == result.value.a
    IN \A i \in DOMAIN tasks :
         (\E j \in DOMAIN kept : kept[j] = tasks[i])
           <=> IF range = Undef THEN TRUE
               ELSE \E d \in PresentDays(tasks[i]) : LowerDay(range) <= d /\ d <= UpperDay(range)

\* A task whose creation date is before the range and whose deadline is in
\* it has been kept.
C20_Witness ==
  /\ DateFiltered
  /\ call.args[2].dateRange # Undef
  /\ LowerDay(call.args[2].dateRange) = 2
  /\ Get(call.args[1][1], "creationDate") = Str(IsoDate(Days[1]))
  /\ Get(call.args[1][1], "startDate") = Undef
  /\ Get(call.args[1][1], "deadline") = Str(IsoDate(Days[2]))
  /\ Len(result.value.a) = 1

(***************************************************************************)
(* Properties of the inactive areas and tags.                              *)
(***************************************************************************)
\* The elements of a sequence.
Range(seq) == {seq[i] : i \in DOMAIN seq}

\* The tasks and projects that survived the filters.
Survivors ==
  {filteredTasks[j] : j \in {k \in DOMAIN filteredTasks :
      filteredTasks[k].o.type \in {Str("task"), Str("project")}}}

\* C21: without includeInactive every area of the result has a project or a
\* task that survived filtering and every tag of the result is carried by a
\* task or project that survived filtering; with includeInactive every loaded
\* area that passes the area filter and every loaded tag is in the result.
C21_InactiveAreasAndTagsDropped ==
  Assembled =>
    IF Truthy(sparams.includeInactive)
      THEN /\ \A area \in Range(FilteredAreas(Areas(loaded), sparams)) :
                \E listed \in Section(summary.value, "areas") : listed.o.id = area.o.id
           /\ \A tag \in Range(LoadedTags(loaded)) :
                \E listed \in Section(summary.value, "tags") : listed.o.id = tag.o.id
      ELSE /\ \A area \in Section(summary.value, "areas") :
                Section(area, "projects") \cup Section(area, "tasks") # {}
           /\ \A tag \in Section(summary.value, "tags") :
                \E item \in Survivors : tag.o.name.s \in TagNames(item)

(***************************************************************************)
(* Properties of the area filter.                                          *)
(***************************************************************************)
\* The names of the areas an item belongs to: its own area and, for a to-do
\* inside a project, the area of the project.
AreaNamesOf(id) ==
  LET row == TaskRow(db, id)
      own == {row.area}
      viaProject == IF row.project \in TaskIds(db) THEN {TaskRow(db, row.project).area} ELSE {}
  IN {db.areas[i].title : i \in {k \in DOMAIN db.areas : db.areas[k].uuid \in own \cup viaProject}}

\* C22: with an area-name filter, every task and project of the result
\* (inside areas, in projects, inboxTasks and todayTasks) belongs to an area
\* whose name is in the filter.
C22_AreaFilterRestrictsItems ==
  (Assembled /\ NonEmptyArray(sparams.areas)) =>
    \A item \in ResultItems :
      \E name \in AreaNamesOf(item.o.id.s) : Includes(sparams.areas.a, name)

(***************************************************************************)
(* Properties of the lists a task is placed in.                            *)
(***************************************************************************)
\* The projects of the tree, at the top and inside areas.
ListedProjects ==
  Section(summary.value, "projects")
    \cup UNION {Section(area, "projects") : area \in Section(summary.value, "areas")}

\* The places of the tree whose list holds the task: the inbox, an area, a project.
Listings(id) ==
  {<<"inbox", "">> : task \in {t \in Section(summary.value, "inboxTasks") : t.o.id = Str(id)}}
    \cup {<<"area", area.o.id.s>> : area \in {a \in Section(summary.value, "areas") :
            \E t \in Section(a, "tasks") : t.o.id = Str(id)}}
    \cup {<<"project", project.o.id.s>> : project \in {q \in ListedProjects :
            \E t \in Section(q, "tasks") : t.o.id = Str(id)}}

\* The tasks listed under areas.
AreaTasks == UNION {Section(area, "tasks") : area \in Section(summary.value, "areas")}

Exported == epc = "done" /\ ~exported.threw

\* The identifiers of the TMTask rows a request with the two flags is to load.
RowsFor(completed, trash) ==
  {db.tasks[i].uuid : i \in {k \in DOMAIN db.tasks :
      /\ completed \/ db.tasks[k].status = StatusOpen
      /\ trash \/ db.tasks[k].trashed = 0}}

\* The identifiers of the rows the request loaded.
ExportedIds == {task.o.id.s : task \in Section(exported.value, "tasks")}
LoadedIds == {loaded.tasks[i][1] : i \in DOMAIN loaded.tasks}

\* An open item that is not in the trash.
Active(id) == TaskRow(db, id).status = StatusOpen /\ TaskRow(db, id).trashed = 0

\* The export: exactly the rows of the four cases, and with default flags
\* only active items among the tasks and the checklist items.
ExportLoadsByFlags ==
  (Exported /\ "tasks" \notin failedQueries) =>
    /\ ExportedIds = RowsFor(Truthy(eparams.includeCompleted), Truthy(eparams.includeTrash))
    /\ (~Truthy(eparams.includeCompleted) /\ ~Truthy(eparams.includeTrash)) =>
         /\ \A id \in ExportedIds : Active(id)
         /\ \A item \in Section(exported.value, "checklist_items") : Active(item.o.task_id.s)

\* Setting a flag never removes a row that is loaded without it.
FlagsOnlyWiden ==
  \A p \in ExportParams, q \in ExportParams :
    (/\ Truthy(p.includeCompleted) => Truthy(q.includeCompleted)
     /\ Truthy(p.includeTrash) => Truthy(q.includeTrash)
     /\ p.minimal = q.minimal)
    => Range(ExportSelectTasks(db, p)) \subseteq Range(ExportSelectTasks(db, q))

RequestMinute == 570

\* The day (an index into Days) the host's local clock shows at that instant.
LocalDay(now) ==
  LET minute == RequestMinute + zone * 60
  IN IF minute < 0 THEN now - 1 ELSE IF minute >= 1440 THEN now + 1 ELSE now

\* The surviving tasks of kind task whose decoded start date is the given day.
StartingOn(day) ==
  {task.o.id.s : task \in {t \in Survivors :
      t.o.type = Str("task") /\ Get(t, "startDate") = Str(IsoDate(Days[day]))}}

TodayIds == {task.o.id.s : task \in Section(summary.value, "todayTasks")}

\* C25: todayTasks is exactly the set of surviving tasks of kind task whose
\* decoded start date is today's calendar date on the host's local clock,
\* also when the local date and the UTC date differ.
C25_TodayIsLocalDate ==
  Assembled =>
    /\ \E now \in Clock : TodayIds = StartingOn(LocalDay(now))
    /\ TodayIds \subseteq {task.o.id.s : task \in Survivors}

(***************************************************************************)
(* Properties of the parsers of rows.                                      *)
(***************************************************************************)
\* A parser of an AppleScript listing has returned.
Parsed(fn) == call.fn = fn /\ result # Running

\* The lines of the listing with all the parts of the format.
WellFormedLines(parts) ==
  {call.args[1][i] : i \in {k \in DOMAIN call.args[1] : Len(call.args[1][k]) >= parts}}

\* The items of the returned list.
ParsedItems == {result.value.a[i] : i \in DOMAIN result.value.a}

\* A line is in the output: an item has its identifier, and its due date
\* (part 9 of a to-do, part 7 of a project) is the date the text denotes, or
\* absent when the text denotes none.
LineParsed(line, duePart) ==
  \E item \in ParsedItems :
    /\ item.o.id = Str(line[1])
    /\ item.o.dueDate = parseAppleScriptDate(line[duePart])

\* The rows of tasksData with all the columns and the kind of a to-do.
WellFormedRows ==
  {call.args[2].tasks[i] : i \in {k \in DOMAIN call.args[2].tasks :
      Len(call.args[2].tasks[k]) = 11}}

\* C26: a malformed row or date affects only that field or row: every
\* well-formed line of a to-do listing and of a project listing is in the
\* parsed list, with a malformed date absent, and every row of tasksData
\* with all its columns is in the summary, whatever the other rows are.
C26_MalformedRowIsolated ==
  /\ Parsed("parseAppleScriptTodoList") =>
       \A line \in WellFormedLines(17) : LineParsed(line, 9)
  /\ Parsed("parseAppleScriptProjectList") =>
       \A line \in WellFormedLines(15) : LineParsed(line, 7)
  /\ Parsed("getThingsSummary") =>
       /\ ~result.threw
       /\ \A row \in WellFormedRows :
            \E item \in Section(result.value, "inboxTasks") \cup Section(result.value, "projects")
                          \cup UNION {Section(q, "tasks") : q \in Section(result.value, "projects")} :
              item.o.id = Str(row[1])

(***************************************************************************)
(* C27: update requests for the same item are not coordinated.  A request  *)
(* that has not started can start, and one whose open command runs can     *)
(* end, whatever the other request is doing; every command the host        *)
(* receives is the one its own request built from its own parameters; and  *)
(* the record holds what the command processed last wrote.                 *)
(***************************************************************************)
Last(seq) == seq[Len(seq)]

HostCommandsSeen == Range(hostInbox) \cup Range(processed)

LastCommandWins ==
  processed # <<>> =>
    LET w == CommandWrites(Last(processed).url)
    IN /\ w.title # Undef => hostItem.title = w.title.s
       /\ w.status # Undef => hostItem.status = w.status.n

CompletedAtRead ==
  /\ reads = 1
  /\ storeAtRead.present
  /\ storeAtRead.uuid = vargs.id
  /\ storeAtRead.status = StatusCompleted

C28_CompletedOnlyIfCompletedAtRead ==
  (vfn = "verifyItemCompleted" /\ vpc = "done") =>
    /\ vresult = Returned(Bool(TRUE)) => CompletedAtRead
    /\ (\/ reads = 0
        \/ ~storeAtRead.present
        \/ storeAtRead.status \in {StatusOpen, StatusCanceled})
         => vresult = Returned(Bool(FALSE))

\* The record was open when it was read, the host has completed it since, and
\* the call returned false.
C28_Witness ==
  /\ vfn = "verifyItemCompleted"
  /\ vpc = "done"
  /\ reads = 1
  /\ sqlResult # <<>>
  /\ storeAtRead.present /\ storeAtRead.status = StatusOpen
  /\ store.present /\ store.status = StatusCompleted
  /\ hostQueue = <<>>
  /\ vresult = Returned(Bool(FALSE))

\* The record was completed when it was read and the call returned true.
CompletionSeen ==
  /\ vfn = "verifyItemCompleted"
  /\ vpc = "done"
  /\ CompletedAtRead
  /\ vresult = Returned(Bool(TRUE))

(***************************************************************************)
(* C29: the summary is rebuilt on every request.  The rows a request       *)
(* loads are the rows its own queries print from the database as it is     *)
(* when the request runs (or none, for a query that failed), and the tree  *)
(* it returns is the function of those rows, its own parameters and the    *)
(* date: nothing of an earlier request or of an earlier database enters.   *)
(***************************************************************************)
\* The tree a request with these arguments returns over this database.
TreeOver(d, a, broken, now) ==
  getThingsSummary(ParseSummaryArgs(a), LoadRows(d, ParseSummaryArgs(a), broken), now)

LoadedAreaRows == Range(loaded.areas)
LoadedTagRows == Range(loaded.tags)
LoadedTaskRows == Range(loaded.tasks)

\* The association rows whose task and tag were both loaded.
LiveAssociations ==
  SelectSeq(loaded.taskTags, LAMBDA pair :
    /\ \E row \in LoadedTaskRows : row[1] = pair[1]
    /\ \E row \in LoadedTagRows : row[1] = pair[2])

\* The database changed between two queries of the request.
StoreChangedMidRequest == \E q \in QueryNames : loaded[q] # QueryRows(q)

C30_NoDanglingReference ==
  Assembled =>
    /\ \A task \in ResultItems \cup Range(filteredTasks) :
         /\ Truthy(Get(task, "area")) =>
              \E row \in LoadedAreaRows :
                /\ Get(task, "area").o.id = Str(row[1])
                /\ Get(task, "area").o.name = Str(IF row[2] = "" THEN "Unnamed Area" ELSE row[2])
         /\ Truthy(Get(task, "project")) =>
              \E row \in LoadedTaskRows :
                /\ row[4] = "1"
                /\ Get(task, "project").o.id = Str(row[1])
                /\ Get(task, "project").o.name = Str(row[2])
         /\ \A tag \in Section(task, "tags") :
              \E row \in LoadedTagRows :
                /\ tag.o.id = Str(row[1])
                /\ tag.o.name = Str(IF row[2] = "" THEN "Unnamed Tag" ELSE row[2])
    /\ \E now \in Clock :
         summary.value =
           getThingsSummary(sparams, [loaded EXCEPT !.taskTags = LiveAssociations], now)

\* The host wrote between the queries, an association row was loaded whose
\* task or tag was not, and the tree lists items.
C30_Witness ==
  /\ Assembled
  /\ StoreChangedMidRequest
  /\ LiveAssociations # loaded.taskTags
  /\ ListedItems # {}

====
